---------------------------- MODULE Spec2Model ----------------------------
(***************************************************************************)
(* pong-xtreme: the useGameLogic hook (src/hooks/useGameLogic.ts) as a     *)
(* state machine.                                                          *)
(*                                                                         *)
(* gameState is React's state of the hook: every setGameState(updater) is  *)
(* applied to it in the order the updaters are enqueued.  committed is the *)
(* part of the last committed render that the hook's effects and           *)
(* gameStateRef read; it trails gameState until the Commit step runs the   *)
(* effects, which it does before the next frame or timer callback.         *)
(* JavaScript numbers are fixed-point integers: lengths and speeds in      *)
(* 1/Scale px, angles in 1/AngleScale rad.                                 *)
(***************************************************************************)
EXTENDS Integers, Sequences, FiniteSets, TLC

VARIABLES
    gameState,      \* useState<GameState>: the latest state, all updaters applied
    keysPressed,    \* keysPressed.current, restricted to the four paddle keys
    matchHistory,   \* matchHistory.current
    committed,      \* isGameActive, winner, isPaused, countdown of the last commit
    timer,          \* TRUE while the countdown effect's setTimeout is pending
    sounds,         \* playGameSound calls of the latest step, in order
    keyEvents,      \* paddle key presses handled so far
    pauseKeys,      \* Space/Enter presses handled so far
    starts,         \* startGame calls so far
    touched,        \* history: whether the ball has touched a block in this
                    \* rally, and since the last paddle hit
    wonBy,          \* history: the player ("player1" or "player2") who won
                    \* each finished match of the session
    app             \* App's isSubmitting and scoreSubmitted, the saves in
                    \* flight and the list LeaderboardService stores

vars == <<gameState, keysPressed, matchHistory, committed, timer, sounds,
          keyEvents, pauseKeys, starts, touched, wonBy, app>>

---------------------------------------------------------------------------
(* Bounds of the model *)

MaxKeyEvents == 1
MaxPauseKeys == 2
MaxStarts == 2
MaxPoints == 12
MaxPaddleKeys == 2
MaxPaddlePoints == 1
MaxBlockPoints == 4
MaxHits == 22
MaxPaddleHits == 1
MaxRallyKeys == 100
MaxWallHits == 4
MaxMatches == 4
MaxStreakKeys == 3
MaxSubmitsPerRender == 2

(* Program constants (src/constants.ts), in px, ticks or points *)

GAME_WIDTH == 800
GAME_HEIGHT == 600
PADDLE_WIDTH == 15
PADDLE_HEIGHT == 100
PADDLE_SPEED == 11
BALL_SIZE == 15
INITIAL_BALL_SPEED == 7
HARDCORE_INITIAL_BALL_SPEED == 10
MAX_BALL_SPEED == 14
RALLY_HITS_THRESHOLD == 5
RALLY_HITS_INTERVAL == 2
RALLY_ELEGANTO_THRESHOLD == 10
RALLY_YAMEROO_THRESHOLD == 20
BLOCK_WIDTH == 20
BLOCK_HEIGHT == 40
POINTS_TO_START_BLOCKS == 2
MAX_BLOCKS_ON_SCREEN == 5
BASE_WINNING_SCORE == 5
WIN_BY_MARGIN == 2
MAX_PROGRESSION_SCORE == 5
PADDLE_MARGIN == 20          \* the literal 20 of the paddle collision planes
BLOCK_GAP == 5               \* the literal 5 of the placement test
COUNTDOWN_START == 3         \* the literal 3 of startGame and handleScore
STRAIGHT_HITS_LIMIT == 4     \* the literal 4 of the anti-stuck rule
PLACEMENT_ATTEMPTS == 10     \* the literal 10 of the placement loop
LEADERBOARD_SIZE == 10       \* the literal 10 of save's slice(0, 10)

(* Fixed point *)

Scale == 100                 \* units per px
AngleScale == 10000          \* units per rad

Px(n) == n * Scale

BALL_SPEED_INCREMENT == Scale \div 2                 \* 0.5
HIGH_SPEED_THRESHOLD == (25 * Scale) \div 2          \* 12.5
MAX_BOUNCE_ANGLE == 7854                             \* Math.PI / 4
STRAIGHT_ANGLE == AngleScale \div 10                 \* 0.1
FORCED_ANGLE == (35 * AngleScale) \div 100           \* 0.35
EPSILON == Scale \div 5                              \* 0.2
HalfBall == Px(BALL_SIZE) \div 2                     \* BALL_SIZE / 2

Null == "null"
Modes == {"classic", "hardcore"}
Players == {"player1", "player2"}
Keys == {"w", "s", "ArrowUp", "ArrowDown"}

(* Inputs *)

NamePairs == {<<"ANA", "BOB">>, <<"ANA", "ANA">>}
BlockYChoices == {Px(100), Px(280), Px(300)}
BlockSlots == {Px(0), Px(50), Px(100), Px(150), Px(400), Px(450)}
RotationDeltas == {3}                \* Math.random() * 8 - 4
BlockRotationDeltas == {-2}        \* Math.random() * 6 - 3

---------------------------------------------------------------------------
(* Math *)

Abs(x) == IF x < 0 THEN -x ELSE x
Min(a, b) == IF a < b THEN a ELSE b
Max(a, b) == IF a > b THEN a ELSE b

\* a / b for b > 0, rounded toward zero
Quot(a, b) == IF a >= 0 THEN a \div b ELSE -((-a) \div b)

\* Math.cos(a) and Math.sin(a) for |a| <= MAX_BOUNCE_ANGLE, times AngleScale
Cos(a) ==
    LET x2 == (a * a) \div AngleScale
        x4 == (x2 * x2) \div AngleScale
        x6 == (x4 * x2) \div AngleScale
    IN  AngleScale - (x2 \div 2) + (x4 \div 24) - (x6 \div 720)

Sin(a) ==
    LET x2 == (a * a) \div AngleScale
        x4 == (x2 * x2) \div AngleScale
        x6 == (x4 * x2) \div AngleScale
    IN  a - Quot(a * x2, 6 * AngleScale) + Quot(a * x4, 120 * AngleScale)
          - Quot(a * x6, 5040 * AngleScale)

---------------------------------------------------------------------------
(* State *)

resetBallPosition ==
    [x |-> Px(GAME_WIDTH) \div 2, y |-> Px(GAME_HEIGHT) \div 2, vx |-> 0, vy |-> 0]

PaddleCenterY == Px(GAME_HEIGHT) \div 2 - Px(PADDLE_HEIGHT) \div 2

BaseSpeed_AlwaysClassic(mode) == Px(INITIAL_BALL_SPEED)

BaseSpeed(mode) ==
    IF mode = "hardcore" THEN Px(HARDCORE_INITIAL_BALL_SPEED) ELSE Px(INITIAL_BALL_SPEED)

createInitialState(mode, p1Name, p2Name) ==
    [ paddles |-> [left |-> PaddleCenterY, right |-> PaddleCenterY],
      ball |-> resetBallPosition,
      blocks |-> << >>,
      score |-> [player1 |-> 0, player2 |-> 0],
      playerNames |-> [player1 |-> p1Name, player2 |-> p2Name],
      isGameActive |-> FALSE,
      isPaused |-> FALSE,
      winner |-> Null,
      isMasacre |-> FALSE,
      isDramaticFinish |-> FALSE,
      isNoScope |-> FALSE,
      isPongPoint |-> FALSE,
      isTsukuyomi |-> FALSE,
      isExplosion |-> FALSE,
      isSonicBoom |-> FALSE,
      isNearMiss |-> FALSE,
      isRemontada |-> FALSE,
      ballSpeed |-> BaseSpeed(mode),
      rallyPaddleHits |-> 0,
      countdown |-> 0,
      nextBallDirection |-> 0,
      lastScorer |-> Null,
      lastScorerId |-> Null,
      consecutiveStraightHits |-> 0,
      boardRotation |-> 0,
      mode |-> mode,
      lastHitter |-> Null,
      currentPointWallHits |-> 0,
      hitBlockInFlight |-> FALSE,
      hasSpeedThresholdMet |-> FALSE,
      hasElegantoPlayed |-> FALSE,
      hasYamerooPlayed |-> FALSE ]

\* What the effects' dependency arrays and gameStateRef's readers look at
Deps(s) ==
    [ isGameActive |-> s.isGameActive, winner |-> s.winner,
      isPaused |-> s.isPaused, countdown |-> s.countdown ]

NoKeys == [k \in Keys |-> FALSE]

NoTouch == [rally |-> FALSE, flight |-> FALSE]

\* App's state after the first render: nothing submitted, no save in flight,
\* an empty leaderboard
AppInit ==
    [ isSubmitting |-> FALSE, scoreSubmitted |-> FALSE, saves |-> << >>, stored |-> << >> ]

\* App's effect on gameState.isGameActive, run by the commit that takes the
\* dependencies from old to new: a starting match resets scoreSubmitted
ResetSubmission(a, old, new) ==
    IF new.isGameActive # old.isGameActive /\ new.isGameActive
    THEN [a EXCEPT !.scoreSubmitted = FALSE]
    ELSE a

Init ==
    /\ gameState = createInitialState("classic", "Player 1", "Player 2")
    /\ keysPressed = NoKeys
    /\ matchHistory = << >>
    /\ committed = Deps(gameState)
    /\ timer = FALSE
    /\ sounds = << >>
    /\ keyEvents = 0
    /\ pauseKeys = 0
    /\ starts = 0
    /\ touched = NoTouch
    /\ wonBy = << >>
    /\ app = AppInit


---------------------------------------------------------------------------
(* gameLoop: the updater passed to setGameState, in the order of the code. *)
(* A working value w holds the next state s and the sounds played so far.  *)

getSpeedForScore_NoCap(totalScore, mode) ==
    BaseSpeed(mode) + totalScore * BALL_SPEED_INCREMENT

getSpeedForScore(totalScore, mode) ==
    BaseSpeed(mode) + Min(totalScore, MAX_PROGRESSION_SCORE) * BALL_SPEED_INCREMENT

checkSpeedUp(currentHits) ==
    \/ currentHits = RALLY_HITS_THRESHOLD
    \/ /\ currentHits > RALLY_HITS_THRESHOLD
       /\ (currentHits - RALLY_HITS_THRESHOLD) % RALLY_HITS_INTERVAL = 0

Sound(w, sound) == [w EXCEPT !.snd = Append(@, sound)]

\* if (!prev.isGameActive || prev.winner || prev.isPaused) return prev;
\* if (prev.countdown > 0) return prev;
LoopReturnsPrev_NoPause(prev) ==
    \/ ~prev.isGameActive
    \/ prev.winner # Null
    \/ prev.countdown > 0

LoopReturnsPrev_NoCountdown(prev) ==
    \/ ~prev.isGameActive
    \/ prev.winner # Null
    \/ prev.isPaused

LoopReturnsPrev(prev) ==
    \/ ~prev.isGameActive
    \/ prev.winner # Null
    \/ prev.isPaused
    \/ prev.countdown > 0

\* The per-tick locals that start from false, whatever prev held
ClearTickFlags(s) ==
    [s EXCEPT !.isMasacre = FALSE, !.isDramaticFinish = FALSE, !.isNoScope = FALSE,
              !.isPongPoint = FALSE, !.isTsukuyomi = FALSE, !.isExplosion = FALSE,
              !.isSonicBoom = FALSE, !.isNearMiss = FALSE, !.isRemontada = FALSE]

AudioChecks_NoFlags(w0) ==
    LET w1 == IF w0.s.ballSpeed >= HIGH_SPEED_THRESHOLD /\ ~w0.s.hasSpeedThresholdMet
              THEN Sound(w0, "lightspeed")
              ELSE w0
        w2 == IF w1.s.rallyPaddleHits = RALLY_ELEGANTO_THRESHOLD /\ ~w1.s.hasElegantoPlayed
              THEN Sound(w1, "eleganto")
              ELSE w1
    IN  IF w2.s.rallyPaddleHits = RALLY_YAMEROO_THRESHOLD /\ ~w2.s.hasYamerooPlayed
        THEN Sound(w2, "yameroo")
        ELSE w2

AudioChecks(w0) ==
    LET w1 == IF w0.s.ballSpeed >= HIGH_SPEED_THRESHOLD /\ ~w0.s.hasSpeedThresholdMet
              THEN Sound([w0 EXCEPT !.s.hasSpeedThresholdMet = TRUE], "lightspeed")
              ELSE w0
        w2 == IF w1.s.rallyPaddleHits = RALLY_ELEGANTO_THRESHOLD /\ ~w1.s.hasElegantoPlayed
              THEN Sound([w1 EXCEPT !.s.hasElegantoPlayed = TRUE], "eleganto")
              ELSE w1
    IN  IF w2.s.rallyPaddleHits = RALLY_YAMEROO_THRESHOLD /\ ~w2.s.hasYamerooPlayed
        THEN Sound([w2 EXCEPT !.s.hasYamerooPlayed = TRUE], "yameroo")
        ELSE w2

PaddleUp(y) == Max(0, y - Px(PADDLE_SPEED))
PaddleDown_NoClamp(y) == y + Px(PADDLE_SPEED)

PaddleDown(y) == Min(Px(GAME_HEIGHT) - Px(PADDLE_HEIGHT), y + Px(PADDLE_SPEED))

MovePaddle(y, up, down) ==
    LET y1 == IF up THEN PaddleUp(y) ELSE y
    IN  IF down THEN PaddleDown(y1) ELSE y1

MovePaddles(w, keys) ==
    [w EXCEPT !.s.paddles.left = MovePaddle(@, keys["w"], keys["s"]),
              !.s.paddles.right = MovePaddle(@, keys["ArrowUp"], keys["ArrowDown"])]

CapSpeed(w) ==
    IF w.s.ballSpeed > Px(MAX_BALL_SPEED) THEN [w EXCEPT !.s.ballSpeed = Px(MAX_BALL_SPEED)] ELSE w

MoveBall(w) ==
    [w EXCEPT !.s.ball.x = @ + w.s.ball.vx, !.s.ball.y = @ + w.s.ball.vy]

WallBounce_TopOnly(w) ==
    LET b == w.s.ball
        counted == IF w.s.lastHitter # Null THEN 1 ELSE 0
    IN  IF b.y - HalfBall <= 0
        THEN Sound([w EXCEPT !.s.ball.y = HalfBall, !.s.ball.vy = Abs(b.vy),
                            !.s.currentPointWallHits = @ + counted], "wall")
        ELSE IF b.y + HalfBall >= Px(GAME_HEIGHT)
        THEN Sound([w EXCEPT !.s.ball.y = Px(GAME_HEIGHT) - HalfBall, !.s.ball.vy = -Abs(b.vy)],
                   "wall")
        ELSE w

WallBounce(w) ==
    LET b == w.s.ball
        counted == IF w.s.lastHitter # Null THEN 1 ELSE 0
    IN  IF b.y - HalfBall <= 0
        THEN Sound([w EXCEPT !.s.ball.y = HalfBall, !.s.ball.vy = Abs(b.vy),
                            !.s.currentPointWallHits = @ + counted], "wall")
        ELSE IF b.y + HalfBall >= Px(GAME_HEIGHT)
        THEN Sound([w EXCEPT !.s.ball.y = Px(GAME_HEIGHT) - HalfBall, !.s.ball.vy = -Abs(b.vy),
                            !.s.currentPointWallHits = @ + counted], "wall")
        ELSE w

isDeuce(score) ==
    /\ score.player1 >= BASE_WINNING_SCORE - 1
    /\ score.player2 >= BASE_WINNING_SCORE - 1

shouldRotateOnPaddle_HardcoreOnly(s) == s.mode = "hardcore"

shouldRotateOnPaddle_Always(s) == TRUE

shouldRotateOnPaddle(s) == isDeuce(s.score) \/ s.mode = "hardcore"

isCollidingWithLeftPaddle(s) ==
    /\ s.ball.x - HalfBall <= Px(PADDLE_MARGIN) + Px(PADDLE_WIDTH)
    /\ s.ball.y > s.paddles.left
    /\ s.ball.y < s.paddles.left + Px(PADDLE_HEIGHT)

isCollidingWithRightPaddle(s) ==
    /\ s.ball.x + HalfBall >= Px(GAME_WIDTH) - Px(PADDLE_MARGIN) - Px(PADDLE_WIDTH)
    /\ s.ball.y > s.paddles.right
    /\ s.ball.y < s.paddles.right + Px(PADDLE_HEIGHT)

\* bounceAngle = normalizedIntersectY * MAX_BOUNCE_ANGLE
BounceAngle(paddleY, ballY) ==
    LET relativeIntersectY == (paddleY + Px(PADDLE_HEIGHT) \div 2) - ballY
    IN  Quot(relativeIntersectY * MAX_BOUNCE_ANGLE, Px(PADDLE_HEIGHT) \div 2)

SpeedAfterHit_AnyScore(speed, hits, totalScore) ==
    LET raised == IF checkSpeedUp(hits) THEN speed + BALL_SPEED_INCREMENT ELSE speed
    IN  Min(raised, Px(MAX_BALL_SPEED))

SpeedAfterHit_NoCap(speed, hits, totalScore) ==
    IF checkSpeedUp(hits) /\ totalScore < MAX_PROGRESSION_SCORE
    THEN speed + BALL_SPEED_INCREMENT ELSE speed

SpeedAfterHit(speed, hits, totalScore) ==
    LET raised == IF checkSpeedUp(hits) /\ totalScore < MAX_PROGRESSION_SCORE
                  THEN speed + BALL_SPEED_INCREMENT ELSE speed
    IN  Min(raised, Px(MAX_BALL_SPEED))

PaddleHit_KeepsBlockFlag(w, side, direction, rotation) ==
    LET s == w.s
        left == side = "player1"
        snapX == IF left
                 THEN Px(PADDLE_MARGIN) + Px(PADDLE_WIDTH) + HalfBall + Px(1)
                 ELSE Px(GAME_WIDTH) - Px(PADDLE_MARGIN) - Px(PADDLE_WIDTH) - HalfBall - Px(1)
        hits == s.rallyPaddleHits + 1
        speed == SpeedAfterHit(s.ballSpeed, hits, s.score.player1 + s.score.player2)
        paddleY == IF left THEN s.paddles.left ELSE s.paddles.right
        angle0 == BounceAngle(paddleY, s.ball.y)
        straight0 == IF Abs(angle0) < STRAIGHT_ANGLE THEN s.consecutiveStraightHits + 1 ELSE 0
        forced == straight0 >= STRAIGHT_HITS_LIMIT
        angle == IF forced THEN direction * FORCED_ANGLE ELSE angle0
        vx == Quot(speed * Cos(angle), AngleScale)
        vy == Quot(speed * (-Sin(angle)), AngleScale)
    IN  Sound([w EXCEPT !.s.ball.x = snapX,
                       !.s.ball.vx = IF left THEN vx ELSE -vx,
                       !.s.ball.vy = vy,
                       !.s.lastHitter = side,
                       !.s.currentPointWallHits = 0,
                       !.s.rallyPaddleHits = hits,
                       !.s.ballSpeed = speed,
                       !.s.consecutiveStraightHits = IF forced THEN 0 ELSE straight0,
                       !.s.boardRotation = @ + rotation], "paddle")

PaddleHit_NeverForced(w, side, direction, rotation) ==
    LET s == w.s
        left == side = "player1"
        snapX == IF left
                 THEN Px(PADDLE_MARGIN) + Px(PADDLE_WIDTH) + HalfBall + Px(1)
                 ELSE Px(GAME_WIDTH) - Px(PADDLE_MARGIN) - Px(PADDLE_WIDTH) - HalfBall - Px(1)
        hits == s.rallyPaddleHits + 1
        speed == SpeedAfterHit(s.ballSpeed, hits, s.score.player1 + s.score.player2)
        paddleY == IF left THEN s.paddles.left ELSE s.paddles.right
        angle0 == BounceAngle(paddleY, s.ball.y)
        straight0 == IF Abs(angle0) < STRAIGHT_ANGLE THEN s.consecutiveStraightHits + 1 ELSE 0
        forced == FALSE
        angle == IF forced THEN direction * FORCED_ANGLE ELSE angle0
        vx == Quot(speed * Cos(angle), AngleScale)
        vy == Quot(speed * (-Sin(angle)), AngleScale)
    IN  Sound([w EXCEPT !.s.ball.x = snapX,
                       !.s.ball.vx = IF left THEN vx ELSE -vx,
                       !.s.ball.vy = vy,
                       !.s.lastHitter = side,
                       !.s.currentPointWallHits = 0,
                       !.s.hitBlockInFlight = FALSE,
                       !.s.rallyPaddleHits = hits,
                       !.s.ballSpeed = speed,
                       !.s.consecutiveStraightHits = IF forced THEN 0 ELSE straight0,
                       !.s.boardRotation = @ + rotation], "paddle")

\* One branch of the paddle test: side is "player1" (left) or "player2" (right);
\* direction and rotation are the Math.random() draws the branch may use.
PaddleHit(w, side, direction, rotation) ==
    LET s == w.s
        left == side = "player1"
        snapX == IF left
                 THEN Px(PADDLE_MARGIN) + Px(PADDLE_WIDTH) + HalfBall + Px(1)
                 ELSE Px(GAME_WIDTH) - Px(PADDLE_MARGIN) - Px(PADDLE_WIDTH) - HalfBall - Px(1)
        hits == s.rallyPaddleHits + 1
        speed == SpeedAfterHit(s.ballSpeed, hits, s.score.player1 + s.score.player2)
        paddleY == IF left THEN s.paddles.left ELSE s.paddles.right
        angle0 == BounceAngle(paddleY, s.ball.y)
        straight0 == IF Abs(angle0) < STRAIGHT_ANGLE THEN s.consecutiveStraightHits + 1 ELSE 0
        forced == straight0 >= STRAIGHT_HITS_LIMIT
        angle == IF forced THEN direction * FORCED_ANGLE ELSE angle0
        vx == Quot(speed * Cos(angle), AngleScale)
        vy == Quot(speed * (-Sin(angle)), AngleScale)
    IN  Sound([w EXCEPT !.s.ball.x = snapX,
                       !.s.ball.vx = IF left THEN vx ELSE -vx,
                       !.s.ball.vy = vy,
                       !.s.lastHitter = side,
                       !.s.currentPointWallHits = 0,
                       !.s.hitBlockInFlight = FALSE,
                       !.s.rallyPaddleHits = hits,
                       !.s.ballSpeed = speed,
                       !.s.consecutiveStraightHits = IF forced THEN 0 ELSE straight0,
                       !.s.boardRotation = @ + rotation], "paddle")

\* Whether the hit of this paddle would take the forced deflection
ForcedDeflection(s, side) ==
    LET paddleY == IF side = "player1" THEN s.paddles.left ELSE s.paddles.right
    IN  /\ Abs(BounceAngle(paddleY, s.ball.y)) < STRAIGHT_ANGLE
        /\ s.consecutiveStraightHits + 1 >= STRAIGHT_HITS_LIMIT

\* rotate: shouldRotateOnPaddle, computed from the score before this tick's point
PaddleBounce(w, rotate) ==
    LET s == w.s
        side == IF isCollidingWithLeftPaddle(s) /\ s.ball.vx < 0 THEN "player1"
                ELSE IF isCollidingWithRightPaddle(s) /\ s.ball.vx > 0 THEN "player2"
                ELSE Null
    IN  IF side = Null THEN {w}
        ELSE { PaddleHit(w, side, direction, rotation) :
                 direction \in (IF ForcedDeflection(s, side) THEN {1, -1} ELSE {1}),
                 rotation \in (IF rotate THEN RotationDeltas ELSE {0}) }

combinedHalfWidths == (Px(BALL_SIZE) + Px(BLOCK_WIDTH)) \div 2
combinedHalfHeights == (Px(BALL_SIZE) + Px(BLOCK_HEIGHT)) \div 2

BlockDx(ball, block) == ball.x - (block.x + Px(BLOCK_WIDTH) \div 2)
BlockDy(ball, block) == ball.y - (block.y + Px(BLOCK_HEIGHT) \div 2)

Overlaps(ball, block) ==
    /\ Abs(BlockDx(ball, block)) < combinedHalfWidths
    /\ Abs(BlockDy(ball, block)) < combinedHalfHeights

BlockHit_NoFlag(w, block, rotation) ==
    LET b == w.s.ball
        dx == BlockDx(b, block)
        dy == BlockDy(b, block)
        overlapX == combinedHalfWidths - Abs(dx)
        overlapY == combinedHalfHeights - Abs(dy)
        w1 == IF overlapX < overlapY
              THEN [w EXCEPT !.s.ball.vx = -b.vx,
                             !.s.ball.x = @ + (IF dx > 0 THEN overlapX + EPSILON
                                                ELSE -overlapX - EPSILON)]
              ELSE [w EXCEPT !.s.ball.vy = -b.vy,
                             !.s.ball.y = @ + (IF dy > 0 THEN overlapY + EPSILON
                                                ELSE -overlapY - EPSILON)]
    IN  Sound([w1 EXCEPT !.s.boardRotation = @ + rotation], "block")

BlockHit(w, block, rotation) ==
    LET b == w.s.ball
        dx == BlockDx(b, block)
        dy == BlockDy(b, block)
        overlapX == combinedHalfWidths - Abs(dx)
        overlapY == combinedHalfHeights - Abs(dy)
        w1 == IF overlapX < overlapY
              THEN [w EXCEPT !.s.ball.vx = -b.vx,
                             !.s.ball.x = @ + (IF dx > 0 THEN overlapX + EPSILON
                                                ELSE -overlapX - EPSILON)]
              ELSE [w EXCEPT !.s.ball.vy = -b.vy,
                             !.s.ball.y = @ + (IF dy > 0 THEN overlapY + EPSILON
                                                ELSE -overlapY - EPSILON)]
    IN  Sound([w1 EXCEPT !.s.boardRotation = @ + rotation, !.s.hitBlockInFlight = TRUE],
             "block")

\* for (const block of blocks) { if (overlap) { ...; break; } }
BlockCollision(w) ==
    LET hitting == {i \in DOMAIN w.s.blocks : Overlaps(w.s.ball, w.s.blocks[i])}
    IN  IF hitting = {} THEN {w}
        ELSE LET first == CHOOSE i \in hitting : \A j \in hitting : i <= j
             IN  { BlockHit(w, w.s.blocks[first], rotation) :
                     rotation \in BlockRotationDeltas }

handleScore_TowardLoser(w, scorer) ==
    LET s == w.s
        score == [s.score EXCEPT ![scorer] = @ + 1]
        noScope == s.currentPointWallHits > 3
        pongPoint == ~noScope /\ s.hitBlockInFlight
        direction == IF scorer = "player1" THEN 1 ELSE -1
    IN  Sound([w EXCEPT !.s.score = score,
                       !.s.lastScorer = s.playerNames[scorer],
                       !.s.lastScorerId = scorer,
                       !.s.isNoScope = noScope,
                       !.s.isPongPoint = pongPoint,
                       !.s.ballSpeed = getSpeedForScore(score.player1 + score.player2, s.mode),
                       !.s.rallyPaddleHits = 0,
                       !.s.consecutiveStraightHits = 0,
                       !.s.boardRotation = 0,
                       !.s.currentPointWallHits = 0,
                       !.s.hitBlockInFlight = FALSE,
                       !.s.hasSpeedThresholdMet = FALSE,
                       !.s.hasElegantoPlayed = FALSE,
                       !.s.hasYamerooPlayed = FALSE,
                       !.s.lastHitter = Null,
                       !.s.ball = resetBallPosition,
                       !.s.countdown = COUNTDOWN_START,
                       !.s.nextBallDirection = direction,
                       !.s.paddles = [left |-> PaddleCenterY, right |-> PaddleCenterY]],
             IF noScope THEN "noscope" ELSE IF pongPoint THEN "pongpoint" ELSE "score")

handleScore_Both(w, scorer) ==
    LET s == w.s
        score == [player1 |-> s.score.player1 + 1, player2 |-> s.score.player2 + 1]
        noScope == s.currentPointWallHits > 3
        pongPoint == ~noScope /\ s.hitBlockInFlight
        direction == IF scorer = "player1" THEN -1 ELSE 1
    IN  Sound([w EXCEPT !.s.score = score,
                       !.s.lastScorer = s.playerNames[scorer],
                       !.s.lastScorerId = scorer,
                       !.s.isNoScope = noScope,
                       !.s.isPongPoint = pongPoint,
                       !.s.ballSpeed = getSpeedForScore(score.player1 + score.player2, s.mode),
                       !.s.rallyPaddleHits = 0,
                       !.s.consecutiveStraightHits = 0,
                       !.s.boardRotation = 0,
                       !.s.currentPointWallHits = 0,
                       !.s.hitBlockInFlight = FALSE,
                       !.s.hasSpeedThresholdMet = FALSE,
                       !.s.hasElegantoPlayed = FALSE,
                       !.s.hasYamerooPlayed = FALSE,
                       !.s.lastHitter = Null,
                       !.s.ball = resetBallPosition,
                       !.s.countdown = COUNTDOWN_START,
                       !.s.nextBallDirection = direction,
                       !.s.paddles = [left |-> PaddleCenterY, right |-> PaddleCenterY]],
             IF noScope THEN "noscope" ELSE IF pongPoint THEN "pongpoint" ELSE "score")

handleScore_KeepsPaddles(w, scorer) ==
    LET s == w.s
        score == [s.score EXCEPT ![scorer] = @ + 1]
        noScope == s.currentPointWallHits > 3
        pongPoint == ~noScope /\ s.hitBlockInFlight
        direction == IF scorer = "player1" THEN -1 ELSE 1
    IN  Sound([w EXCEPT !.s.score = score,
                       !.s.lastScorer = s.playerNames[scorer],
                       !.s.lastScorerId = scorer,
                       !.s.isNoScope = noScope,
                       !.s.isPongPoint = pongPoint,
                       !.s.ballSpeed = getSpeedForScore(score.player1 + score.player2, s.mode),
                       !.s.rallyPaddleHits = 0,
                       !.s.consecutiveStraightHits = 0,
                       !.s.boardRotation = 0,
                       !.s.currentPointWallHits = 0,
                       !.s.hitBlockInFlight = FALSE,
                       !.s.hasSpeedThresholdMet = FALSE,
                       !.s.hasElegantoPlayed = FALSE,
                       !.s.hasYamerooPlayed = FALSE,
                       !.s.lastHitter = Null,
                       !.s.ball = resetBallPosition,
                       !.s.countdown = COUNTDOWN_START,
                       !.s.nextBallDirection = direction],
             IF noScope THEN "noscope" ELSE IF pongPoint THEN "pongpoint" ELSE "score")

handleScore_NoScopeAtThree(w, scorer) ==
    LET s == w.s
        score == [s.score EXCEPT ![scorer] = @ + 1]
        noScope == s.currentPointWallHits >= 3
        pongPoint == ~noScope /\ s.hitBlockInFlight
        direction == IF scorer = "player1" THEN -1 ELSE 1
    IN  Sound([w EXCEPT !.s.score = score,
                       !.s.lastScorer = s.playerNames[scorer],
                       !.s.lastScorerId = scorer,
                       !.s.isNoScope = noScope,
                       !.s.isPongPoint = pongPoint,
                       !.s.ballSpeed = getSpeedForScore(score.player1 + score.player2, s.mode),
                       !.s.rallyPaddleHits = 0,
                       !.s.consecutiveStraightHits = 0,
                       !.s.boardRotation = 0,
                       !.s.currentPointWallHits = 0,
                       !.s.hitBlockInFlight = FALSE,
                       !.s.hasSpeedThresholdMet = FALSE,
                       !.s.hasElegantoPlayed = FALSE,
                       !.s.hasYamerooPlayed = FALSE,
                       !.s.lastHitter = Null,
                       !.s.ball = resetBallPosition,
                       !.s.countdown = COUNTDOWN_START,
                       !.s.nextBallDirection = direction,
                       !.s.paddles = [left |-> PaddleCenterY, right |-> PaddleCenterY]],
             IF noScope THEN "noscope" ELSE IF pongPoint THEN "pongpoint" ELSE "score")

handleScore(w, scorer) ==
    LET s == w.s
        score == [s.score EXCEPT ![scorer] = @ + 1]
        noScope == s.currentPointWallHits > 3
        pongPoint == ~noScope /\ s.hitBlockInFlight
        direction == IF scorer = "player1" THEN -1 ELSE 1
    IN  Sound([w EXCEPT !.s.score = score,
                       !.s.lastScorer = s.playerNames[scorer],
                       !.s.lastScorerId = scorer,
                       !.s.isNoScope = noScope,
                       !.s.isPongPoint = pongPoint,
                       !.s.ballSpeed = getSpeedForScore(score.player1 + score.player2, s.mode),
                       !.s.rallyPaddleHits = 0,
                       !.s.consecutiveStraightHits = 0,
                       !.s.boardRotation = 0,
                       !.s.currentPointWallHits = 0,
                       !.s.hitBlockInFlight = FALSE,
                       !.s.hasSpeedThresholdMet = FALSE,
                       !.s.hasElegantoPlayed = FALSE,
                       !.s.hasYamerooPlayed = FALSE,
                       !.s.lastHitter = Null,
                       !.s.ball = resetBallPosition,
                       !.s.countdown = COUNTDOWN_START,
                       !.s.nextBallDirection = direction,
                       !.s.paddles = [left |-> PaddleCenterY, right |-> PaddleCenterY]],
             IF noScope THEN "noscope" ELSE IF pongPoint THEN "pongpoint" ELSE "score")

ScoreDetection(w) ==
    IF w.s.ball.x < 0 THEN handleScore(w, "player2")
    ELSE IF w.s.ball.x > Px(GAME_WIDTH) THEN handleScore(w, "player1")
    ELSE w

---------------------------------------------------------------------------
(* Block spawning and eviction *)

\* numToSpawn from the three Math.random() draws r1 < 0.8, r2 < 0.4, r3 < 0.1
Cascade(r1, r2, r3) ==
    IF ~r1 THEN 1 ELSE IF ~r2 THEN 2 ELSE IF ~r3 THEN 3 ELSE 4

NumToSpawnChoices_Always(blocks) ==
    {Cascade(r1, r2, r3) : r1 \in BOOLEAN, r2 \in BOOLEAN, r3 \in BOOLEAN}

NumToSpawnChoices(blocks) ==
    IF Len(blocks) >= 2
    THEN {Cascade(r1, r2, r3) : r1 \in BOOLEAN, r2 \in BOOLEAN, r3 \in BOOLEAN}
    ELSE {1}

isOverlapping_Never(blocks, newY) == FALSE

isOverlapping(blocks, newY) ==
    \E i \in DOMAIN blocks : Abs(blocks[i].y - newY) < Px(BLOCK_HEIGHT) + Px(BLOCK_GAP)

NewBlock(newY) == [x |-> Px(GAME_WIDTH) \div 2 - Px(BLOCK_WIDTH) \div 2, y |-> newY]

\* while (attempt < 10 && !placed): the block lists the loop can end with, each
\* attempt drawing newY = Math.random() * (GAME_HEIGHT - BLOCK_HEIGHT) from ys
RECURSIVE PlaceBlock(_, _, _)
PlaceBlock(blocks, attempt, ys) ==
    IF attempt >= PLACEMENT_ATTEMPTS THEN {blocks}
    ELSE { Append(blocks, NewBlock(newY)) :
             newY \in {y \in ys : ~isOverlapping(blocks, y)} }
         \cup (IF \E y \in ys : isOverlapping(blocks, y)
               THEN PlaceBlock(blocks, attempt + 1, ys) ELSE {})

\* for (let i = 0; i < numToSpawn; i++)
RECURSIVE SpawnBlocks(_, _, _)
SpawnBlocks(blocks, numToSpawn, ys) ==
    IF numToSpawn = 0 THEN {blocks}
    ELSE UNION { SpawnBlocks(placed, numToSpawn - 1, ys) :
                   placed \in PlaceBlock(blocks, 0, ys) }

Evict_Never(blocks) == blocks

Evict_Newest(blocks) ==
    IF Len(blocks) > MAX_BLOCKS_ON_SCREEN THEN SubSeq(blocks, 1, MAX_BLOCKS_ON_SCREEN) ELSE blocks

\* while (blocks.length > MAX_BLOCKS_ON_SCREEN) blocks.shift();
RECURSIVE Evict(_)
Evict(blocks) ==
    IF Len(blocks) > MAX_BLOCKS_ON_SCREEN THEN Evict(Tail(blocks)) ELSE blocks

someoneScored(s) == s.ball.vx = 0 /\ s.countdown = COUNTDOWN_START

BlockSpawning_AtAnyPoint(w, ys) ==
    IF someoneScored(w.s)
    THEN { [w EXCEPT !.s.blocks = Evict(spawned)] :
             spawned \in UNION { SpawnBlocks(w.s.blocks, n, ys) :
                                   n \in NumToSpawnChoices(w.s.blocks) } }
    ELSE {w}

BlockSpawning(w, ys) ==
    IF someoneScored(w.s) /\ w.s.score.player1 + w.s.score.player2 >= POINTS_TO_START_BLOCKS
    THEN { [w EXCEPT !.s.blocks = Evict(spawned)] :
             spawned \in UNION { SpawnBlocks(w.s.blocks, n, ys) :
                                   n \in NumToSpawnChoices(w.s.blocks) } }
    ELSE {w}

---------------------------------------------------------------------------
(* Winner check *)

HasWon_NoMargin(score) ==
    score.player1 >= BASE_WINNING_SCORE \/ score.player2 >= BASE_WINNING_SCORE

HasWon(score) ==
    /\ score.player1 >= BASE_WINNING_SCORE \/ score.player2 >= BASE_WINNING_SCORE
    /\ Abs(score.player1 - score.player2) >= WIN_BY_MARGIN

PushResult_Dropped(history, winner, loser) == history

\* matchHistory.current.push({ winner: newWinner, loser: loserName })
PushResult(history, winner, loser) == Append(history, [winner |-> winner, loser |-> loser])

ThirdInARow_SecondInARow(history, winner, loser) ==
    /\ Len(history) >= 1
    /\ history[Len(history)].winner = winner
    /\ history[Len(history)].loser = loser

\* last1 && last2 && both name the same winner and loser
ThirdInARow(history, winner, loser) ==
    /\ Len(history) >= 2
    /\ history[Len(history)].winner = winner
    /\ history[Len(history)].loser = loser
    /\ history[Len(history) - 1].winner = winner
    /\ history[Len(history) - 1].loser = loser

WinSound_ShutoutFirst(s) ==
    IF s.isMasacre THEN "masacre"
    ELSE IF s.isTsukuyomi THEN "tsukuyomi"
    ELSE IF s.isSonicBoom THEN "sonicboom"
    ELSE IF s.isExplosion THEN "explosion"
    ELSE IF s.isRemontada THEN "remontada"
    ELSE IF s.isNearMiss THEN "casi"
    ELSE IF s.isDramaticFinish THEN "dramatic"
    ELSE "win"

WinSound(s) ==
    IF s.isTsukuyomi THEN "tsukuyomi"
    ELSE IF s.isMasacre THEN "masacre"
    ELSE IF s.isSonicBoom THEN "sonicboom"
    ELSE IF s.isExplosion THEN "explosion"
    ELSE IF s.isRemontada THEN "remontada"
    ELSE IF s.isNearMiss THEN "casi"
    ELSE IF s.isDramaticFinish THEN "dramatic"
    ELSE "win"

WinnerCheck_ComebackAtFive(w, history) ==
    LET s == w.s
    IN  IF HasWon(s.score)
        THEN LET p1Wins == s.score.player1 > s.score.player2
                 newWinner == IF p1Wins THEN s.playerNames.player1 ELSE s.playerNames.player2
                 loserName == IF p1Wins THEN s.playerNames.player2 ELSE s.playerNames.player1
                 winnerScore == IF p1Wins THEN s.score.player1 ELSE s.score.player2
                 loserScore == IF p1Wins THEN s.score.player2 ELSE s.score.player1
                 isMasacre == loserScore = 0
                 flagged == [s EXCEPT
                     !.winner = newWinner,
                     !.isMasacre = isMasacre,
                     !.isExplosion = winnerScore >= 5 /\ loserScore = 3,
                     !.isSonicBoom = winnerScore >= 5 /\ loserScore = 2,
                     !.isNearMiss = winnerScore >= 5 /\ loserScore = 1,
                     !.isRemontada = loserScore >= 5 /\ ~isMasacre,
                     !.isDramaticFinish = winnerScore > BASE_WINNING_SCORE,
                     !.isTsukuyomi = ThirdInARow(history, newWinner, loserName),
                     !.isGameActive = FALSE]
             IN  [ w |-> Sound([w EXCEPT !.s = flagged], WinSound(flagged)),
                   history |-> PushResult(history, newWinner, loserName) ]
        ELSE [ w |-> w, history |-> history ]

WinnerCheck_OvertimeAtFive(w, history) ==
    LET s == w.s
    IN  IF HasWon(s.score)
        THEN LET p1Wins == s.score.player1 > s.score.player2
                 newWinner == IF p1Wins THEN s.playerNames.player1 ELSE s.playerNames.player2
                 loserName == IF p1Wins THEN s.playerNames.player2 ELSE s.playerNames.player1
                 winnerScore == IF p1Wins THEN s.score.player1 ELSE s.score.player2
                 loserScore == IF p1Wins THEN s.score.player2 ELSE s.score.player1
                 isMasacre == loserScore = 0
                 flagged == [s EXCEPT
                     !.winner = newWinner,
                     !.isMasacre = isMasacre,
                     !.isExplosion = winnerScore >= 5 /\ loserScore = 3,
                     !.isSonicBoom = winnerScore >= 5 /\ loserScore = 2,
                     !.isNearMiss = winnerScore >= 5 /\ loserScore = 1,
                     !.isRemontada = loserScore >= 4 /\ ~isMasacre,
                     !.isDramaticFinish = winnerScore >= BASE_WINNING_SCORE,
                     !.isTsukuyomi = ThirdInARow(history, newWinner, loserName),
                     !.isGameActive = FALSE]
             IN  [ w |-> Sound([w EXCEPT !.s = flagged], WinSound(flagged)),
                   history |-> PushResult(history, newWinner, loserName) ]
        ELSE [ w |-> w, history |-> history ]

\* The result of the winner check: the working value and matchHistory.current
WinnerCheck(w, history) ==
    LET s == w.s
    IN  IF HasWon(s.score)
        THEN LET p1Wins == s.score.player1 > s.score.player2
                 newWinner == IF p1Wins THEN s.playerNames.player1 ELSE s.playerNames.player2
                 loserName == IF p1Wins THEN s.playerNames.player2 ELSE s.playerNames.player1
                 winnerScore == IF p1Wins THEN s.score.player1 ELSE s.score.player2
                 loserScore == IF p1Wins THEN s.score.player2 ELSE s.score.player1
                 isMasacre == loserScore = 0
                 flagged == [s EXCEPT
                     !.winner = newWinner,
                     !.isMasacre = isMasacre,
                     !.isExplosion = winnerScore >= 5 /\ loserScore = 3,
                     !.isSonicBoom = winnerScore >= 5 /\ loserScore = 2,
                     !.isNearMiss = winnerScore >= 5 /\ loserScore = 1,
                     !.isRemontada = loserScore >= 4 /\ ~isMasacre,
                     !.isDramaticFinish = winnerScore > BASE_WINNING_SCORE,
                     !.isTsukuyomi = ThirdInARow(history, newWinner, loserName),
                     !.isGameActive = FALSE]
             IN  [ w |-> Sound([w EXCEPT !.s = flagged], WinSound(flagged)),
                   history |-> PushResult(history, newWinner, loserName) ]
        ELSE [ w |-> w, history |-> history ]

\* Every result the updater can return for prev: [s, snd, history]
gameLoop(prev, keys, history, ys) ==
    IF LoopReturnsPrev(prev)
    THEN { [s |-> prev, snd |-> << >>, history |-> history] }
    ELSE LET w0 == [s |-> ClearTickFlags(prev), snd |-> << >>]
             w1 == WallBounce(MoveBall(CapSpeed(MovePaddles(AudioChecks(w0), keys))))
             rotate == shouldRotateOnPaddle(prev)
             afterBlocks == UNION { BlockCollision(w2) : w2 \in PaddleBounce(w1, rotate) }
             afterSpawn == UNION { BlockSpawning(ScoreDetection(w3), ys) : w3 \in afterBlocks }
         IN  { LET r == WinnerCheck(w4, history)
               IN  [s |-> r.w.s, snd |-> r.w.snd, history |-> r.history] : w4 \in afterSpawn }

---------------------------------------------------------------------------
(* The countdown effect's timer callback: the updater of lines 335-365 *)

countdownStep_NoLaunch(prev) ==
    IF prev.isPaused THEN prev ELSE [prev EXCEPT !.countdown = prev.countdown - 1]

countdownStep_KeepsMarkers(prev) ==
    IF prev.isPaused THEN prev
    ELSE LET newCount == prev.countdown - 1
         IN  IF newCount = 0
             THEN [prev EXCEPT !.countdown = newCount,
                               !.ball.vx = prev.nextBallDirection * prev.ballSpeed,
                               !.ball.vy = 0]
             ELSE [prev EXCEPT !.countdown = newCount]

countdownStep(prev) ==
    IF prev.isPaused THEN prev
    ELSE LET newCount == prev.countdown - 1
         IN  IF newCount = 0
             THEN [prev EXCEPT !.countdown = newCount,
                               !.ball.vx = prev.nextBallDirection * prev.ballSpeed,
                               !.ball.vy = 0,
                               !.lastScorer = Null,
                               !.lastScorerId = Null,
                               !.isNoScope = FALSE,
                               !.isPongPoint = FALSE]
             ELSE [prev EXCEPT !.countdown = newCount]

togglePause_AlwaysPauses(prev) == [prev EXCEPT !.isPaused = TRUE]

\* The updater of the pause keys
togglePause(prev) == [prev EXCEPT !.isPaused = ~prev.isPaused]

---------------------------------------------------------------------------
(* Effects *)

TimerCondition_AtZero(d) ==
    d.isGameActive /\ d.winner = Null /\ ~d.isPaused

\* The countdown effect's condition for setting its timer
TimerCondition(d) ==
    d.isGameActive /\ d.countdown > 0 /\ d.winner = Null /\ ~d.isPaused

\* The animation-frame effect's condition for running the loop
LoopRunning(d) == d.isGameActive /\ d.winner = Null

RunEffects_CountdownNotADependency(d) ==
    /\ committed' = d
    /\ timer' = IF [d EXCEPT !.countdown = committed.countdown] = committed
                THEN timer ELSE TimerCondition(d)

\* Running the effects for a render whose dependencies are d: the cleanup clears
\* the pending timer and the effect sets a new one; unchanged dependencies skip both
RunEffects(d) ==
    /\ committed' = d
    /\ timer' = IF d = committed THEN timer ELSE TimerCondition(d)

\* The start overlay (both start buttons) is rendered
OverlayShown(d) == ~d.isGameActive \/ d.winner # Null

---------------------------------------------------------------------------
(* Actions.  A configuration c names the inputs a specification draws from: *)
(* modes, names, startDirs, keys, blockYs (sets), keysAnytime (whether      *)
(* paddle keys change during a rally too), keysInMatch (whether they change  *)
(* while a match is on at all), reflex (whether the players      *)
(* press and release the keys between two frames so as to follow the ball), *)
(* maxKeyEvents, maxPauseKeys, maxStarts, maxPoints, maxHits (bounds).      *)

\* A click on a start button: handleStartGame and startGame.  The mode buttons and
\* the name inputs are rendered before the first match only; Play Again starts a
\* classic match with the names unchanged.  A click is rendered synchronously.
StartGame(c, mode, names, startDir) ==
    /\ starts < c.maxStarts
    /\ OverlayShown(committed)
    /\ startDir \in c.startDirs
    /\ IF starts = 0
       THEN mode \in c.modes /\ names \in c.names
       ELSE mode = "classic" /\ names = <<gameState.playerNames.player1,
                                         gameState.playerNames.player2>>
    /\ gameState' = [createInitialState(mode, names[1], names[2]) EXCEPT
                        !.isGameActive = TRUE,
                        !.countdown = COUNTDOWN_START,
                        !.nextBallDirection = startDir]
    /\ RunEffects(Deps(gameState'))
    /\ starts' = starts + 1
    /\ sounds' = << >>
    /\ touched' = NoTouch
    /\ app' = ResetSubmission(app, committed, Deps(gameState'))
    /\ UNCHANGED <<keysPressed, matchHistory, keyEvents, pauseKeys, wonBy>>

\* The ball is frozen: no match is running, or the countdown is
BallFrozen == gameState.countdown > 0 \/ ~gameState.isGameActive

\* A player who follows the ball presses key k once the ball is further than
\* TrackingSlack above (w, ArrowUp) or below (s, ArrowDown) the paddle's center,
\* and holds it until the center has reached the ball
TrackingSlack == Px(30)

Wanted(k) ==
    LET y == IF k \in {"w", "s"} THEN gameState.paddles.left ELSE gameState.paddles.right
        above == (y + Px(PADDLE_HEIGHT) \div 2) - gameState.ball.y
        offset == IF k \in {"w", "ArrowUp"} THEN above ELSE -above
    IN  IF keysPressed[k] THEN offset > 0 ELSE offset > TrackingSlack

\* handleKeyDown and handleKeyUp for a paddle key
KeyDown(c, k) ==
    /\ keyEvents < c.maxKeyEvents
    /\ c.keysAnytime \/ BallFrozen
    /\ c.keysInMatch \/ ~gameState.isGameActive
    /\ c.reflex => Wanted(k)
    /\ ~keysPressed[k]
    /\ keysPressed' = [keysPressed EXCEPT ![k] = TRUE]
    /\ keyEvents' = keyEvents + 1
    /\ sounds' = << >>
    /\ UNCHANGED <<gameState, matchHistory, committed, timer, pauseKeys, starts, touched, wonBy,
                   app>>

KeyUp(c, k) ==
    /\ c.keysAnytime \/ BallFrozen
    /\ c.keysInMatch \/ ~gameState.isGameActive
    /\ c.reflex => ~Wanted(k)
    /\ keysPressed[k]
    /\ keysPressed' = [keysPressed EXCEPT ![k] = FALSE]
    /\ sounds' = << >>
    /\ UNCHANGED <<gameState, matchHistory, committed, timer, keyEvents, pauseKeys, starts,
                   touched, wonBy, app>>

\* handleKeyDown for Space or Enter, as a function of the latest state s and of
\* gameStateRef.current (d), which the effect sets at commit
pauseResult(s, d) ==
    IF ~d.isGameActive \/ d.winner # Null THEN s ELSE togglePause(s)

\* A key event is rendered synchronously: on top of the committed state when an
\* update of the loop or the timer is still pending.
PauseKey(c) ==
    /\ pauseKeys < c.maxPauseKeys
    /\ pauseKeys' = pauseKeys + 1
    /\ sounds' = << >>
    /\ gameState' = pauseResult(gameState, committed)
    /\ IF ~committed.isGameActive \/ committed.winner # Null
       THEN UNCHANGED <<committed, timer>>
       ELSE RunEffects([committed EXCEPT !.isPaused = ~committed.isPaused])
    /\ UNCHANGED <<keysPressed, matchHistory, keyEvents, starts, touched, wonBy, app>>

\* Whether a render is pending.  React's scheduler renders a pending update in a
\* task of its own, queued at once: before the next animation frame (16 ms away)
\* and before a timer of the countdown (1000 ms) can run.  Input events are
\* handled whenever they arrive.
RenderPending == committed # Deps(gameState)

\* The render of the pending updates is committed and its effects run
Commit ==
    /\ RenderPending
    /\ RunEffects(Deps(gameState))
    /\ app' = ResetSubmission(app, committed, Deps(gameState))
    /\ sounds' = << >>
    /\ UNCHANGED <<gameState, keysPressed, matchHistory, keyEvents, pauseKeys, starts,
                   touched, wonBy>>

\* The countdown timer expires
TimerFire ==
    /\ timer
    /\ ~RenderPending
    /\ timer' = FALSE
    /\ gameState' = countdownStep(gameState)
    /\ sounds' = << >>
    /\ UNCHANGED <<keysPressed, matchHistory, committed, keyEvents, pauseKeys, starts,
                   touched, wonBy, app>>

\* Whether the frame that played snd played sound
Played(snd, sound) == \E i \in DOMAIN snd : snd[i] = sound

\* The block touches of the rally after a frame that played snd: a point ends
\* the rally, a block hit is a touch, a paddle hit starts a new flight
Touches(t, snd) ==
    IF Played(snd, "score") \/ Played(snd, "pongpoint") \/ Played(snd, "noscope")
    THEN NoTouch
    ELSE IF Played(snd, "block") THEN [rally |-> TRUE, flight |-> TRUE]
    ELSE IF Played(snd, "paddle") THEN [t EXCEPT !.flight = FALSE]
    ELSE t

\* The winners of the session after a frame from prev to next: the frame that
\* sets winner adds the player with the higher score
Winners(won, prev, next) ==
    IF prev.winner = Null /\ next.winner # Null
    THEN Append(won, IF next.score.player1 > next.score.player2 THEN "player1" ELSE "player2")
    ELSE won

\* One animation frame: loop() calls gameLoop()
Tick(c) ==
    /\ LoopRunning(committed)
    /\ ~RenderPending
    /\ gameState.score.player1 + gameState.score.player2 < c.maxPoints
    /\ gameState.rallyPaddleHits < c.maxHits
    /\ c.reflex => \A k \in c.keys : keysPressed[k] = Wanted(k)
    /\ \E r \in gameLoop(gameState, keysPressed, matchHistory, c.blockYs) :
          /\ gameState' = r.s
          /\ matchHistory' = r.history
          /\ sounds' = r.snd
          /\ touched' = Touches(touched, r.snd)
          /\ wonBy' = Winners(wonBy, gameState, r.s)
    /\ UNCHANGED <<keysPressed, committed, timer, keyEvents, pauseKeys, starts, app>>

\* The steps every session takes: start clicks, commits, timers and frames
Run(c) ==
    \/ \E mode \in Modes, names \in NamePairs, startDir \in {1, -1} :
          StartGame(c, mode, names, startDir)
    \/ Commit
    \/ TimerFire
    \/ Tick(c)

\* ... with the paddle keys
Play(c) ==
    \/ Run(c)
    \/ \E k \in c.keys : KeyDown(c, k)
    \/ \E k \in c.keys : KeyUp(c, k)

\* Whole matches: both modes, one paddle key pressed between rallies, a rematch
Matches ==
    [ modes |-> Modes, names |-> {<<"ANA", "BOB">>}, startDirs |-> {1, -1},
      keys |-> Keys,
      blockYs |-> BlockYChoices, keysAnytime |-> FALSE,
      maxKeyEvents |-> MaxKeyEvents, maxPauseKeys |-> 0,
      maxStarts |-> MaxStarts, maxPoints |-> MaxPoints,
      maxHits |-> MaxHits, reflex |-> FALSE,
      keysInMatch |-> TRUE ]

Next == Play(Matches)

Spec == Init /\ [][Next]_vars

\* One match with the pause keys pressed at any moment and one paddle key
Pausing ==
    [ modes |-> {"hardcore"}, names |-> {<<"ANA", "BOB">>}, startDirs |-> {1, -1},
      keys |-> {"w"},
      blockYs |-> {Px(100)}, keysAnytime |-> FALSE,
      maxKeyEvents |-> MaxKeyEvents, maxPauseKeys |-> MaxPauseKeys,
      maxStarts |-> 1, maxPoints |-> MaxPoints,
      maxHits |-> MaxHits, reflex |-> FALSE,
      keysInMatch |-> TRUE ]

NextPause == Play(Pausing) \/ PauseKey(Pausing)

SpecPause == Init /\ [][NextPause]_vars

\* One rally with the left paddle's keys pressed and released at any moment
Paddling ==
    [ modes |-> {"classic"}, names |-> {<<"ANA", "BOB">>}, startDirs |-> {1, -1},
      keys |-> {"w", "s"},
      blockYs |-> {Px(100)}, keysAnytime |-> TRUE,
      maxKeyEvents |-> MaxPaddleKeys, maxPauseKeys |-> 0,
      maxStarts |-> 1, maxPoints |-> MaxPaddlePoints,
      maxHits |-> MaxPaddleHits, reflex |-> FALSE,
      keysInMatch |-> TRUE ]

NextPaddles == Play(Paddling)

SpecPaddles == Init /\ [][NextPaddles]_vars

\* The first points of a match, the blocks placed in six slots clear of each
\* other, the right player following the ball and the left paddle left alone
Blocking ==
    [ modes |-> {"classic"}, names |-> {<<"ANA", "BOB">>}, startDirs |-> {1},
      keys |-> {"ArrowUp", "ArrowDown"},
      blockYs |-> BlockSlots, keysAnytime |-> TRUE,
      maxKeyEvents |-> MaxRallyKeys, maxPauseKeys |-> 0,
      maxStarts |-> 1, maxPoints |-> MaxBlockPoints,
      maxHits |-> MaxHits, reflex |-> TRUE,
      keysInMatch |-> TRUE ]

NextBlocks == Play(Blocking)

SpecBlocks == Init /\ [][NextBlocks]_vars

\* One rally of a hardcore match between two players who follow the ball
Rallying ==
    [ modes |-> {"hardcore"}, names |-> {<<"ANA", "BOB">>}, startDirs |-> {1, -1},
      keys |-> Keys,
      blockYs |-> {Px(100)}, keysAnytime |-> TRUE,
      maxKeyEvents |-> MaxRallyKeys, maxPauseKeys |-> 0,
      maxStarts |-> 1, maxPoints |-> MaxPoints,
      maxHits |-> MaxHits, reflex |-> TRUE,
      keysInMatch |-> TRUE ]

NextRally == Play(Rallying)

SpecRally == Init /\ [][NextRally]_vars

\* A series of matches between the same two players, each of whom may hold the
\* up key of their paddle through a match, pressing and releasing it between
\* matches only
Streaking ==
    [ modes |-> {"classic"}, names |-> {<<"ANA", "BOB">>}, startDirs |-> {1},
      keys |-> {"w", "ArrowUp"},
      blockYs |-> {Px(100)}, keysAnytime |-> FALSE,
      maxKeyEvents |-> MaxStreakKeys, maxPauseKeys |-> 0,
      maxStarts |-> MaxMatches, maxPoints |-> MaxPoints,
      maxHits |-> MaxHits, reflex |-> FALSE,
      keysInMatch |-> FALSE ]

NextStreak == Play(Streaking)

SpecStreak == Init /\ [][NextStreak]_vars

\* The same series between two players who entered the same name
Namesakes == [Streaking EXCEPT !.names = {<<"ANA", "ANA">>}]

NextNamesakes == Play(Namesakes)

SpecNamesakes == Init /\ [][NextNamesakes]_vars

\* The serve after a point of scorer that made the score score: what
\* handleScore leaves, with the block spawned since the second point
ServeScores ==
    { [player1 |-> 1, player2 |-> 1], [player1 |-> 2, player2 |-> 2],
      [player1 |-> 3, player2 |-> 2], [player1 |-> 4, player2 |-> 4] }

ServeState(mode, score, scorer) ==
    LET total == score.player1 + score.player2
    IN  [createInitialState(mode, "ANA", "BOB") EXCEPT
            !.isGameActive = TRUE,
            !.score = score,
            !.lastScorer = IF scorer = "player1" THEN "ANA" ELSE "BOB",
            !.lastScorerId = scorer,
            !.ballSpeed = getSpeedForScore(total, mode),
            !.countdown = COUNTDOWN_START,
            !.nextBallDirection = IF scorer = "player1" THEN -1 ELSE 1,
            !.blocks = IF total >= POINTS_TO_START_BLOCKS THEN <<NewBlock(Px(400))>> ELSE << >>]

InitServe ==
    /\ \E mode \in Modes, score \in ServeScores, scorer \in Players :
          gameState = ServeState(mode, score, scorer)
    /\ touched = NoTouch
    /\ wonBy = << >>
    /\ app = AppInit
    /\ keysPressed = NoKeys
    /\ matchHistory = << >>
    /\ committed = Deps(gameState)
    /\ timer = TRUE
    /\ sounds = << >>
    /\ keyEvents = 0
    /\ pauseKeys = 0
    /\ starts = 1

\* The rallies that follow those serves, both players following the ball
Serving == [Rallying EXCEPT !.modes = Modes]

NextServe ==
    \/ Commit
    \/ TimerFire
    \/ Tick(Serving)
    \/ \E k \in Serving.keys : KeyDown(Serving, k)
    \/ \E k \in Serving.keys : KeyUp(Serving, k)

SpecServe == InitServe /\ [][NextServe]_vars

\* A serve with one block close to the top or the bottom wall: the state
\* handleScore and the spawning loop leave at 1-1, with the first block drawn
\* at newY = 12 or newY = 550
NearWallYs == {Px(12), Px(550)}

InitSqueeze ==
    /\ \E mode \in Modes, scorer \in Players, y \in NearWallYs :
          gameState = [ServeState(mode, [player1 |-> 1, player2 |-> 1], scorer)
                          EXCEPT !.blocks = <<NewBlock(y)>>]
    /\ touched = NoTouch
    /\ wonBy = << >>
    /\ app = AppInit
    /\ keysPressed = NoKeys
    /\ matchHistory = << >>
    /\ committed = Deps(gameState)
    /\ timer = TRUE
    /\ sounds = << >>
    /\ keyEvents = 0
    /\ pauseKeys = 0
    /\ starts = 1

\* The rallies that follow, one player pressing a paddle key once at any time
Squeezing ==
    [ modes |-> Modes, names |-> {<<"ANA", "BOB">>}, startDirs |-> {1, -1},
      keys |-> {"s"},
      blockYs |-> NearWallYs, keysAnytime |-> TRUE,
      maxKeyEvents |-> MaxKeyEvents, maxPauseKeys |-> 0,
      maxStarts |-> 1, maxPoints |-> MaxBlockPoints,
      maxHits |-> MaxHits, reflex |-> FALSE,
      keysInMatch |-> TRUE ]

NextSqueeze ==
    \/ Commit
    \/ TimerFire
    \/ Tick(Squeezing)
    \/ \E k \in Squeezing.keys : KeyDown(Squeezing, k)
    \/ \E k \in Squeezing.keys : KeyUp(Squeezing, k)

SpecSqueeze == InitSqueeze /\ [][NextSqueeze]_vars

\* The end of a rally, for each value the scoring code reads: the ball left
\* the paddle of hitter at the steepest angle, has bounced off the walls n
\* times since, has touched a block or not (h), and is about to leave the
\* arena behind the other paddle, at a score from PointScores.
PointScores ==
    { [player1 |-> 1, player2 |-> 1], [player1 |-> 4, player2 |-> 0],
      [player1 |-> 2, player2 |-> 4] }

RallyState(mode, score, hitter, n, h) ==
    LET total == score.player1 + score.player2
        speed == getSpeedForScore(total, mode)
        left == hitter = "player1"
        vx == Quot(speed * Cos(MAX_BOUNCE_ANGLE), AngleScale)
        vy == Quot(speed * (-Sin(MAX_BOUNCE_ANGLE)), AngleScale)
    IN  [createInitialState(mode, "ANA", "BOB") EXCEPT
            !.isGameActive = TRUE,
            !.score = score,
            !.ballSpeed = speed,
            !.nextBallDirection = IF left THEN 1 ELSE -1,
            !.blocks = IF total >= POINTS_TO_START_BLOCKS THEN <<NewBlock(Px(400))>> ELSE << >>,
            !.ball = [x |-> IF left THEN Px(GAME_WIDTH) - Px(PADDLE_MARGIN)
                                     ELSE Px(PADDLE_MARGIN),
                      y |-> Px(GAME_HEIGHT) \div 4,
                      vx |-> IF left THEN vx ELSE -vx,
                      vy |-> vy],
            !.rallyPaddleHits = 1,
            !.lastHitter = hitter,
            !.currentPointWallHits = n,
            !.hitBlockInFlight = h]

InitPoint ==
    /\ \E mode \in Modes, score \in PointScores, hitter \in Players,
          n \in 0..MaxWallHits, h \in BOOLEAN :
          /\ gameState = RallyState(mode, score, hitter, n, h)
          /\ touched = [rally |-> h, flight |-> h]
    /\ wonBy = << >>
    /\ app = AppInit
    /\ keysPressed = NoKeys
    /\ matchHistory = << >>
    /\ committed = Deps(gameState)
    /\ timer = FALSE
    /\ sounds = << >>
    /\ keyEvents = 0
    /\ pauseKeys = 0
    /\ starts = 1

\* The points that end those rallies and the play that follows, no key pressed
Pointing ==
    [ modes |-> Modes, names |-> {<<"ANA", "BOB">>}, startDirs |-> {1, -1},
      keys |-> {},
      blockYs |-> {Px(100)}, keysAnytime |-> FALSE,
      maxKeyEvents |-> 0, maxPauseKeys |-> 0,
      maxStarts |-> MaxStarts, maxPoints |-> MaxPoints,
      maxHits |-> MaxHits, reflex |-> FALSE,
      keysInMatch |-> TRUE ]

NextPoint == Run(Pointing)

SpecPoint == InitPoint /\ [][NextPoint]_vars

\* A long rally at a score from PointScores, just after the paddle hit number
\* h by hitter: the speed and the one-shot flags are what h hits leave, the
\* ball leaves the paddle upward at 0.63 rad, the other paddle is at the center.
LongHits == {9, 10, 12, 13, 19, 20}

RECURSIVE SpeedAtHit(_, _, _)
SpeedAtHit(mode, total, h) ==
    IF h = 0 THEN getSpeedForScore(total, mode)
    ELSE SpeedAfterHit(SpeedAtHit(mode, total, h - 1), h, total)

LongRallyState(mode, score, hitter, h) ==
    LET left == hitter = "player1"
        total == score.player1 + score.player2
        speed == SpeedAtHit(mode, total, h)
        paddleY == Px(100)
        ballY == Px(110)
        angle == BounceAngle(paddleY, ballY)
        vx == Quot(speed * Cos(angle), AngleScale)
    IN  [createInitialState(mode, "ANA", "BOB") EXCEPT
            !.isGameActive = TRUE,
            !.score = score,
            !.ballSpeed = speed,
            !.nextBallDirection = 1,
            !.blocks = IF total >= POINTS_TO_START_BLOCKS THEN <<NewBlock(Px(400))>> ELSE << >>,
            !.paddles = IF left THEN [left |-> paddleY, right |-> PaddleCenterY]
                        ELSE [left |-> PaddleCenterY, right |-> paddleY],
            !.ball = [x |-> IF left
                            THEN Px(PADDLE_MARGIN) + Px(PADDLE_WIDTH) + HalfBall + Px(1)
                            ELSE Px(GAME_WIDTH) - Px(PADDLE_MARGIN) - Px(PADDLE_WIDTH)
                                   - HalfBall - Px(1),
                      y |-> ballY,
                      vx |-> IF left THEN vx ELSE -vx,
                      vy |-> Quot(speed * (-Sin(angle)), AngleScale)],
            !.rallyPaddleHits = h,
            !.lastHitter = hitter,
            !.hasSpeedThresholdMet = SpeedAtHit(mode, total, h - 1) >= HIGH_SPEED_THRESHOLD,
            !.hasElegantoPlayed = h > RALLY_ELEGANTO_THRESHOLD,
            !.hasYamerooPlayed = h > RALLY_YAMEROO_THRESHOLD]

InitLong ==
    /\ \E mode \in Modes, score \in PointScores, hitter \in Players, h \in LongHits :
          gameState = LongRallyState(mode, score, hitter, h)
    /\ touched = NoTouch
    /\ wonBy = << >>
    /\ app = AppInit
    /\ keysPressed = NoKeys
    /\ matchHistory = << >>
    /\ committed = Deps(gameState)
    /\ timer = FALSE
    /\ sounds = << >>
    /\ keyEvents = 0
    /\ pauseKeys = 0
    /\ starts = 1

\* The end of those rallies and the play that follows, no key pressed
NextLong == Run(Pointing)

SpecLong == InitLong /\ [][NextLong]_vars

---------------------------------------------------------------------------
(* Properties *)

\* C1: a winner is recorded if and only if some score is at least
\* BASE_WINNING_SCORE and the scores differ by at least WIN_BY_MARGIN (so 5-4
\* never ends the match), and no step moves the ball from a score that meets
\* the condition.
C1_WinnerIffWinCondition ==
    /\ [](LET p1 == gameState.score.player1
              p2 == gameState.score.player2
          IN  gameState.winner # Null <=>
                 /\ p1 >= BASE_WINNING_SCORE \/ p2 >= BASE_WINNING_SCORE
                 /\ p1 - p2 >= WIN_BY_MARGIN \/ p2 - p1 >= WIN_BY_MARGIN)
    /\ [][LET p1 == gameState.score.player1
              p2 == gameState.score.player2
          IN  starts' = starts /\ gameState'.ball # gameState.ball =>
                 ~ (/\ p1 >= BASE_WINNING_SCORE \/ p2 >= BASE_WINNING_SCORE
                    /\ p1 - p2 >= WIN_BY_MARGIN \/ p2 - p1 >= WIN_BY_MARGIN)]_vars

\* A rally is being played at 5-4 or 4-5
C1_Witness ==
    /\ gameState.score.player1 + gameState.score.player2 = 2 * BASE_WINNING_SCORE - 1
    /\ {gameState.score.player1, gameState.score.player2}
          = {BASE_WINNING_SCORE, BASE_WINNING_SCORE - 1}
    /\ gameState.winner = Null
    /\ gameState.countdown = 0
    /\ gameState.ball.x # Px(GAME_WIDTH) \div 2

\* C2: every step but startGame leaves each player's score as it is or raises
\* it, and raises the sum of the two by at most 1.
C2_ScoreSteps ==
    [][starts' = starts =>
         /\ gameState'.score.player1 >= gameState.score.player1
         /\ gameState'.score.player2 >= gameState.score.player2
         /\ (gameState'.score.player1 + gameState'.score.player2)
               - (gameState.score.player1 + gameState.score.player2) \in {0, 1}]_vars

\* Both players have scored in the second match of the session
C2_Witness ==
    /\ starts = 2
    /\ gameState.score.player1 >= 1
    /\ gameState.score.player2 >= 1

\* C3: both paddles stay between 0 and GAME_HEIGHT - PADDLE_HEIGHT.
C3_PaddlesInBounds ==
    /\ gameState.paddles.left >= 0
    /\ gameState.paddles.left <= Px(GAME_HEIGHT) - Px(PADDLE_HEIGHT)
    /\ gameState.paddles.right >= 0
    /\ gameState.paddles.right <= Px(GAME_HEIGHT) - Px(PADDLE_HEIGHT)

\* The left paddle is at the bottom with its up and down keys both held
C3_Witness ==
    /\ gameState.paddles.left = Px(GAME_HEIGHT) - Px(PADDLE_HEIGHT)
    /\ keysPressed["w"]
    /\ keysPressed["s"]
    /\ gameState.countdown = 0

\* C4: there are never more than MAX_BLOCKS_ON_SCREEN blocks.
C4_BlockCount == Len(gameState.blocks) <= MAX_BLOCKS_ON_SCREEN

\* The fourth point has left the screen full
C4_Witness ==
    /\ Len(gameState.blocks) = MAX_BLOCKS_ON_SCREEN
    /\ gameState.score.player1 + gameState.score.player2 = MaxBlockPoints

\* C5: ballSpeed lies between the mode's base speed and MAX_BALL_SPEED in every
\* state, and no step of a rally (the countdown at 0 before and after) lowers it.
C5_SpeedMonotoneAndBounded ==
    /\ [](/\ gameState.ballSpeed >= BaseSpeed(gameState.mode)
          /\ gameState.ballSpeed <= Px(MAX_BALL_SPEED))
    /\ [][starts' = starts /\ gameState.countdown = 0 /\ gameState'.countdown = 0
            => gameState'.ballSpeed >= gameState.ballSpeed]_vars

\* The rally has reached MAX_BALL_SPEED and a later hit that raises the speed
C5_Witness ==
    /\ gameState.ballSpeed = Px(MAX_BALL_SPEED)
    /\ gameState.rallyPaddleHits >= 21
    /\ checkSpeedUp(gameState.rallyPaddleHits)

\* C6: while the state is paused or holds a winner, a frame returns it as it is
\* and plays nothing, a countdown step of a paused state returns it as it is,
\* and no step but a start click or a pause key changes the state or the history.
C6_FrozenWhilePausedOrOver ==
    /\ [](gameState.isPaused \/ gameState.winner # Null =>
            \A ys \in {BlockYChoices, BlockSlots} :
               gameLoop(gameState, keysPressed, matchHistory, ys)
                  = {[s |-> gameState, snd |-> << >>, history |-> matchHistory]})
    /\ [](gameState.isPaused => countdownStep(gameState) = gameState)
    /\ [][(gameState.isPaused \/ gameState.winner # Null)
             /\ starts' = starts /\ pauseKeys' = pauseKeys
            => UNCHANGED <<gameState, matchHistory>>]_vars

\* The match is paused in a rally with a paddle key held, and the loop is running
C6_Witness ==
    /\ gameState.isPaused
    /\ LoopRunning(committed)
    /\ gameState.countdown = 0
    /\ gameState.ball.vx # 0
    /\ keysPressed["w"]
    /\ gameState.paddles.left > 0

\* C7: isPaused is true only while the match is active and has no winner.
C7_PausedOnlyWhileUnresolved ==
    gameState.isPaused => gameState.isGameActive /\ gameState.winner = Null

\* C8: a pause key pressed in a countdown or a rally toggles isPaused, and a
\* second one (pressed at once, or after the render of the first is committed)
\* gives back the state before the first in every field.
C8_TwoToggles ==
    [][pauseKeys' = pauseKeys + 1 /\ gameState.isGameActive /\ gameState.winner = Null
         => /\ gameState' # gameState
            /\ pauseResult(gameState', committed') = gameState
            /\ pauseResult(gameState', Deps(gameState')) = gameState]_vars

\* Two pause keys have been handled in a countdown that is running again
C8_Witness ==
    /\ pauseKeys = 2
    /\ ~gameState.isPaused
    /\ gameState.isGameActive
    /\ gameState.countdown = 2
    /\ timer

\* C9: the step that records a winner appends that winner and the other player
\* to the match history, no other step changes the history, and its length is
\* the number of matches completed.
C9_HistoryAppendedOncePerMatch ==
    /\ [](Len(matchHistory)
            = starts - (IF starts > 0 /\ gameState.winner = Null THEN 1 ELSE 0))
    /\ [][IF starts' = starts /\ gameState.winner = Null /\ gameState'.winner # Null
          THEN LET names == gameState'.playerNames
                   loser == IF gameState'.winner = names.player1
                            THEN names.player2 ELSE names.player1
               IN  matchHistory' = Append(matchHistory,
                                          [winner |-> gameState'.winner, loser |-> loser])
          ELSE matchHistory' = matchHistory]_vars

\* The second match of the session has been recorded after the first
C9_Witness ==
    /\ Len(matchHistory) = 2
    /\ gameState.winner # Null

\* C10 as stated: the serve after a point is launched toward the side that lost
\* the point.
C10_ServeTowardLoser ==
    [][gameState.countdown = 1 /\ gameState'.countdown = 0 /\ gameState.lastScorerId # Null
         => /\ gameState.lastScorerId = "player1" => gameState'.ball.vx > 0
            /\ gameState.lastScorerId = "player2" => gameState'.ball.vx < 0]_vars

\* C10 as amended: the serve after a point that does not end the match is
\* launched, level, toward the side that scored the point.
C10_ServeTowardScorer ==
    [][gameState.countdown = 1 /\ gameState'.countdown = 0 /\ gameState.lastScorerId # Null
         => /\ gameState.lastScorerId = "player1" => gameState'.ball.vx = -gameState.ballSpeed
            /\ gameState.lastScorerId = "player2" => gameState'.ball.vx = gameState.ballSpeed
            /\ gameState'.ball.vy = 0]_vars

\* The serve after player1's first point has been launched to the left
C10_Witness ==
    /\ gameState.score = [player1 |-> 1, player2 |-> 0]
    /\ gameState.countdown = 0
    /\ gameState.ball.x = Px(GAME_WIDTH) \div 2
    /\ gameState.ball.vx < 0

---------------------------------------------------------------------------
(* Countdown *)

\* The match is in a countdown that is not paused
CountingDown ==
    /\ gameState.isGameActive
    /\ gameState.winner = Null
    /\ ~gameState.isPaused
    /\ gameState.countdown > 0

\* What a frame on the current state can return
FrameResults == { r.s : r \in gameLoop(gameState, keysPressed, matchHistory, BlockYChoices) }

\* C11 as stated: during a countdown that is not paused the paddles still
\* move from input, so a frame moves the left paddle of a player holding w
\* (up) or s (down) and the right paddle of a player holding an arrow key.
C11_PaddlesMoveInCountdown ==
    CountingDown =>
        \A s \in FrameResults :
            /\ s.paddles.left = MovePaddle(gameState.paddles.left, keysPressed["w"], keysPressed["s"])
            /\ s.paddles.right = MovePaddle(gameState.paddles.right, keysPressed["ArrowUp"],
                                            keysPressed["ArrowDown"])

\* C11 as amended: during a countdown that is not paused a frame returns the
\* state as it is, whatever keys are held, and no step of the countdown moves
\* a paddle: the paddles are frozen with the ball.
C11_PaddlesFrozenInCountdown ==
    /\ [](CountingDown => FrameResults = {gameState})
    /\ [][CountingDown /\ gameState'.countdown > 0 /\ starts' = starts
            => gameState'.paddles = gameState.paddles]_vars

\* A frame is due during a countdown while a player holds a paddle key
C11_Witness ==
    /\ CountingDown
    /\ ~RenderPending
    /\ LoopRunning(committed)
    /\ \E k \in Keys : keysPressed[k]
    /\ gameState.countdown = 2

\* C12: while a match is active, a countdown above zero means the ball rests
\* at the centre of the arena with velocity (0, 0), and a countdown of zero
\* means the ball's horizontal velocity is not zero.
C12_BallRestsUntilLaunch ==
    gameState.isGameActive =>
        /\ gameState.countdown > 0 =>
              /\ gameState.ball.vx = 0 /\ gameState.ball.vy = 0
              /\ gameState.ball.x = Px(GAME_WIDTH) \div 2
              /\ gameState.ball.y = Px(GAME_HEIGHT) \div 2
        /\ gameState.countdown = 0 => gameState.ball.vx # 0

\* A rally in which a paddle has deflected the ball off the horizontal,
\* in the second point of a match
C12_Witness ==
    /\ gameState.isGameActive
    /\ gameState.countdown = 0
    /\ gameState.rallyPaddleHits >= 1
    /\ gameState.ball.vy # 0
    /\ gameState.score.player1 + gameState.score.player2 >= 1

\* C13: the countdown step from 1 to 0 sets the ball's velocity to
\* (nextBallDirection * ballSpeed, 0) and clears isNoScope, isPongPoint and
\* the last-scorer marker, changing nothing else; a countdown step that ends
\* above 0 changes only the counter.
C13_CountdownStep ==
    [][gameState'.countdown = gameState.countdown - 1 /\ starts' = starts
         => IF gameState.countdown = 1
            THEN gameState' = [gameState EXCEPT
                                  !.countdown = 0,
                                  !.ball = [x |-> gameState.ball.x, y |-> gameState.ball.y,
                                            vx |-> gameState.nextBallDirection * gameState.ballSpeed,
                                            vy |-> 0],
                                  !.lastScorer = Null,
                                  !.lastScorerId = Null,
                                  !.isNoScope = FALSE,
                                  !.isPongPoint = FALSE]
            ELSE gameState' = [gameState EXCEPT !.countdown = gameState.countdown - 1]]_vars

\* The serve after a point has been launched and the scorer's marker is gone
C13_Witness ==
    /\ gameState.isGameActive
    /\ gameState.score.player1 + gameState.score.player2 = 2
    /\ gameState.countdown = 0
    /\ gameState.ball.x = Px(GAME_WIDTH) \div 2
    /\ gameState.ball.vx = gameState.nextBallDirection * gameState.ballSpeed
    /\ gameState.lastScorerId = Null

---------------------------------------------------------------------------
(* Starting a match *)

\* C14: startGame, called before the first match or after a finished one,
\* yields an active, unpaused match at 0-0 with no winner, no blocks, every
\* outcome flag false, the rally counters at zero, ballSpeed at the base speed
\* of the chosen mode, countdown 3 and a serve direction of -1 or +1.
C14_StartGameResets ==
    [][starts' = starts + 1
         => LET s == gameState'
            IN  /\ s.isGameActive /\ ~s.isPaused
                /\ s.score = [player1 |-> 0, player2 |-> 0]
                /\ s.winner = Null
                /\ s.blocks = << >>
                /\ ~s.isMasacre /\ ~s.isDramaticFinish /\ ~s.isNoScope /\ ~s.isPongPoint
                /\ ~s.isTsukuyomi /\ ~s.isExplosion /\ ~s.isSonicBoom /\ ~s.isNearMiss
                /\ ~s.isRemontada
                /\ s.rallyPaddleHits = 0
                /\ s.consecutiveStraightHits = 0
                /\ s.currentPointWallHits = 0
                /\ s.mode = "hardcore" => s.ballSpeed = Px(HARDCORE_INITIAL_BALL_SPEED)
                /\ s.mode = "classic" => s.ballSpeed = Px(INITIAL_BALL_SPEED)
                /\ s.mode \in Modes
                /\ s.countdown = 3
                /\ s.nextBallDirection \in {-1, 1}]_vars

\* A second match has just been started from the end of a finished first one
C14_Witness ==
    /\ starts = 2
    /\ Len(matchHistory) = 1
    /\ gameState.isGameActive
    /\ gameState.countdown = 3
    /\ gameState.score = [player1 |-> 0, player2 |-> 0]
    /\ gameState.ballSpeed = Px(INITIAL_BALL_SPEED)
    /\ gameState.winner = Null

---------------------------------------------------------------------------
(* Points *)

\* The points played in the match
TotalScore(s) == s.score.player1 + s.score.player2

\* C15: in the state produced by a tick that scores a point, rallyPaddleHits,
\* consecutiveStraightHits and currentPointWallHits are 0, lastHitter is null,
\* hitBlockInFlight is false, the three one-shot flags (high speed, eleganto,
\* yameroo) are false and both paddles are at the vertical center.
C15_ScoringResetsRally ==
    [][TotalScore(gameState') = TotalScore(gameState) + 1
         => LET s == gameState'
            IN  /\ s.rallyPaddleHits = 0
                /\ s.consecutiveStraightHits = 0
                /\ s.lastHitter = Null
                /\ s.currentPointWallHits = 0
                /\ ~s.hitBlockInFlight
                /\ ~s.hasSpeedThresholdMet /\ ~s.hasElegantoPlayed /\ ~s.hasYamerooPlayed
                /\ s.paddles.left = (Px(GAME_HEIGHT) - Px(PADDLE_HEIGHT)) \div 2
                /\ s.paddles.right = (Px(GAME_HEIGHT) - Px(PADDLE_HEIGHT)) \div 2]_vars

\* A point has just been scored past a player who holds a paddle key, after a
\* rally in which the ball touched a block
C15_Witness ==
    /\ gameState.lastScorerId # Null
    /\ gameState.countdown = 3
    /\ gameState.isPongPoint
    /\ \E k \in Keys : keysPressed[k]
    /\ gameState.rallyPaddleHits = 0
    /\ gameState.paddles.left = gameState.paddles.right

\* The speed the claim gives for the points played in s
ProgressionSpeed(s) ==
    (IF s.mode = "hardcore" THEN Px(HARDCORE_INITIAL_BALL_SPEED) ELSE Px(INITIAL_BALL_SPEED))
    + (IF TotalScore(s) < MAX_PROGRESSION_SCORE THEN TotalScore(s) ELSE MAX_PROGRESSION_SCORE)
      * BALL_SPEED_INCREMENT

\* C16: in the state produced by a tick that scores a point, and at every
\* launch, ballSpeed is the mode's base speed plus BALL_SPEED_INCREMENT for
\* each point played, counting at most MAX_PROGRESSION_SCORE points, whatever
\* speed the rally before had reached.
C16_SpeedFollowsScore ==
    [][(\/ TotalScore(gameState') = TotalScore(gameState) + 1
        \/ gameState.countdown = 1 /\ gameState'.countdown = 0)
          => gameState'.ballSpeed = ProgressionSpeed(gameState')]_vars

\* The seventh point of a match has been scored: the speed no longer grows
C16_Witness ==
    /\ TotalScore(gameState) = MAX_PROGRESSION_SCORE + 2
    /\ gameState.countdown = COUNTDOWN_START
    /\ gameState.lastScorerId # Null
    /\ gameState.ballSpeed = ProgressionSpeed(gameState)
    /\ gameState.mode = "hardcore"

\* The wall hits counted and the block-hit flag at the moment the frame from
\* the current state to the next scores: what the frame's wall, paddle and
\* block contacts (heard in sounds') make of the values it started from
WallHitsAtScore ==
    IF Played(sounds', "paddle") THEN 0
    ELSE gameState.currentPointWallHits
           + (IF Played(sounds', "wall") /\ gameState.lastHitter # Null THEN 1 ELSE 0)

BlockHitAtScore ==
    IF Played(sounds', "block") THEN TRUE
    ELSE IF Played(sounds', "paddle") THEN FALSE
    ELSE gameState.hitBlockInFlight

\* C17: a scored point is NoScope iff more than 3 wall hits have been counted
\* since the last paddle touch when it is scored; otherwise it is a PongPoint
\* iff the block-hit flag is set; otherwise it is plain.  So NoScope and
\* PongPoint are never both set and four counted wall bounces give NoScope.
C17_PointClassification ==
    [][TotalScore(gameState') = TotalScore(gameState) + 1
         => /\ gameState'.isNoScope <=> WallHitsAtScore > 3
            /\ gameState'.isPongPoint <=> (WallHitsAtScore <= 3 /\ BlockHitAtScore)
            /\ ~(gameState'.isNoScope /\ gameState'.isPongPoint)
            /\ Played(sounds', "score") <=> (~gameState'.isNoScope /\ ~gameState'.isPongPoint)]_vars

\* A point scored after four counted wall bounces: NoScope
C17_Witness ==
    /\ gameState.isNoScope
    /\ ~gameState.isPongPoint
    /\ touched = NoTouch
    /\ gameState.lastScorerId # Null
    /\ Played(sounds, "noscope")
    /\ gameState.countdown = COUNTDOWN_START

\* Whether the ball has touched a block in the rally that the frame from the
\* current state to the next ends, and whether it has since the last paddle hit
TouchedInRally == touched.rally \/ Played(sounds', "block")

TouchedSincePaddle ==
    IF Played(sounds', "block") THEN TRUE
    ELSE IF Played(sounds', "paddle") THEN FALSE
    ELSE touched.flight

\* C18 as stated: if the ball touched a block at any time during the rally
\* and the point is scored with at most 3 wall bounces counted, the point is
\* a PongPoint.
C18_BlockInRallyGivesPongPoint ==
    [][(/\ TotalScore(gameState') = TotalScore(gameState) + 1
        /\ TouchedInRally
        /\ WallHitsAtScore <= 3)
          => gameState'.isPongPoint]_vars

\* C18 as amended: if the ball touched a block after the last paddle hit of
\* the rally (or after the launch, when no paddle has hit it) and the point is
\* scored with at most 3 wall bounces counted, the point is a PongPoint.
C18_BlockSincePaddleGivesPongPoint ==
    [][(/\ TotalScore(gameState') = TotalScore(gameState) + 1
        /\ TouchedSincePaddle
        /\ WallHitsAtScore <= 3)
          => gameState'.isPongPoint]_vars

\* A point has just been scored by a ball that had touched a block since the
\* last paddle hit: the frame played the PongPoint sound
C18_Witness ==
    /\ Played(sounds, "pongpoint")
    /\ gameState.isPongPoint
    /\ ~gameState.isNoScope
    /\ gameState.countdown = COUNTDOWN_START
    /\ TotalScore(gameState) >= POINTS_TO_START_BLOCKS + 1

---------------------------------------------------------------------------
(* The end of a match *)

\* The scores of the winner and of the loser of a finished match
WinnerScore(s) == Max(s.score.player1, s.score.player2)
LoserScore(s) == Min(s.score.player1, s.score.player2)

\* C19: the tick that ends a match sets Shutout (isMasacre) iff the loser has
\* 0, SonicBoom iff the winner has at least 5 and the loser 2, Explosion iff
\* the loser has 3, NearMiss iff the loser has 1, Comeback (isRemontada) iff
\* the loser has at least 4 and Overtime (isDramaticFinish) iff the winner has
\* more than BASE_WINNING_SCORE, all in the same state.
C19_SpecialEndings ==
    [][gameState.winner = Null /\ gameState'.winner # Null
         => LET s == gameState'
            IN  /\ s.isMasacre <=> LoserScore(s) = 0
                /\ s.isSonicBoom <=> (WinnerScore(s) >= 5 /\ LoserScore(s) = 2)
                /\ s.isExplosion <=> LoserScore(s) = 3
                /\ s.isNearMiss <=> LoserScore(s) = 1
                /\ s.isRemontada <=> LoserScore(s) >= 4
                /\ s.isDramaticFinish <=> WinnerScore(s) > BASE_WINNING_SCORE]_vars

\* A match has ended 7-5: Overtime and Comeback are both set
C19_Witness ==
    /\ gameState.winner # Null
    /\ WinnerScore(gameState) = 7
    /\ LoserScore(gameState) = 5
    /\ gameState.isDramaticFinish
    /\ gameState.isRemontada
    /\ ~gameState.isMasacre

\* The history entry of the match that has ended in s
ThisMatch(s) ==
    IF s.score.player1 > s.score.player2
    THEN [winner |-> s.playerNames.player1, loser |-> s.playerNames.player2]
    ELSE [winner |-> s.playerNames.player2, loser |-> s.playerNames.player1]

\* The number of entries at the end of history that equal its last one
RECURSIVE TrailingRun(_)
TrailingRun(history) ==
    IF Len(history) <= 1 THEN Len(history)
    ELSE IF history[Len(history) - 1] = history[Len(history)]
         THEN 1 + TrailingRun(SubSeq(history, 1, Len(history) - 1))
         ELSE 1

\* C20: a match that ends is flagged Streak (isTsukuyomi) iff the two most
\* recent entries of the history, before its own is appended, both have its
\* (winner name, loser name) pair: the third and every later match of an
\* unbroken run of one pair is flagged, the first two are not, and a match
\* with another pair in between restarts the run.
C20_StreakOnThirdInARow ==
    [][gameState.winner = Null /\ gameState'.winner # Null
         => LET n == Len(matchHistory)
            IN  /\ gameState'.isTsukuyomi
                     <=> /\ n >= 2
                         /\ matchHistory[n] = ThisMatch(gameState')
                         /\ matchHistory[n - 1] = ThisMatch(gameState')
                /\ matchHistory' = Append(matchHistory, ThisMatch(gameState'))
                /\ gameState'.isTsukuyomi <=> TrailingRun(matchHistory') >= 3]_vars

\* The third match in a row with the same winner and loser has ended flagged
C20_Witness ==
    /\ Len(matchHistory) = 3
    /\ matchHistory[1] = matchHistory[2]
    /\ matchHistory[2] = matchHistory[3]
    /\ gameState.winner = matchHistory[3].winner
    /\ gameState.isTsukuyomi

---------------------------------------------------------------------------
(* Streaks and the players behind the names *)

\* C21: a match is flagged Streak (isTsukuyomi) only if the player who won it
\* also won both matches completed just before it in the session; matches won
\* by different players never give the flag, whatever names were entered.
C21_StreakBySamePlayer ==
    [][gameState.winner = Null /\ gameState'.winner # Null /\ gameState'.isTsukuyomi
         => LET n == Len(wonBy')
            IN  /\ n >= 3
                /\ wonBy'[n - 1] = wonBy'[n]
                /\ wonBy'[n - 2] = wonBy'[n]]_vars

\* The end-of-match audio categories, highest priority first: streak, shutout,
\* sonicboom, explosion, comeback, nearmiss, overtime, plain win
EndCategories ==
    <<"tsukuyomi", "masacre", "sonicboom", "explosion", "remontada", "casi", "dramatic", "win">>

\* Whether the match that ended in s has the flag of the i-th category
HasCategory(s, i) ==
    CASE i = 1 -> s.isTsukuyomi
      [] i = 2 -> s.isMasacre
      [] i = 3 -> s.isSonicBoom
      [] i = 4 -> s.isExplosion
      [] i = 5 -> s.isRemontada
      [] i = 6 -> s.isNearMiss
      [] i = 7 -> s.isDramaticFinish
      [] OTHER -> TRUE

\* The end-of-match categories among the sounds snd, in the order played
EndSounds(snd) ==
    SelectSeq(snd, LAMBDA x : \E i \in DOMAIN EndCategories : EndCategories[i] = x)

\* C22: the tick that ends a match emits exactly one end-of-match audio
\* category, the one of the highest-priority flag that is set (streak >
\* shutout > sonicboom > explosion > comeback > nearmiss > overtime > plain
\* win), and no other step emits an end-of-match category.
C22_OneEndCategory ==
    [][IF gameState.winner = Null /\ gameState'.winner # Null
       THEN \E i \in DOMAIN EndCategories :
               /\ EndSounds(sounds') = <<EndCategories[i]>>
               /\ HasCategory(gameState', i)
               /\ \A j \in 1..(i - 1) : ~HasCategory(gameState', j)
       ELSE EndSounds(sounds') = << >>]_vars

\* The third shutout in a row has ended: the streak category was played
C22_Witness ==
    /\ gameState.winner # Null
    /\ gameState.isTsukuyomi
    /\ gameState.isMasacre
    /\ EndSounds(sounds) = <<"tsukuyomi">>

---------------------------------------------------------------------------
(* Blocks *)

\* C23: the block list is changed only by a tick that scores a point leaving
\* the cumulative score at POINTS_TO_START_BLOCKS or more, and by startGame,
\* which empties it; it is empty whenever the cumulative score is below
\* POINTS_TO_START_BLOCKS, and a tick without a score, a block collision
\* included, leaves every block in place.
C23_BlocksChangeAtPoints ==
    /\ [](TotalScore(gameState) < 2 => gameState.blocks = << >>)
    /\ [][gameState'.blocks # gameState.blocks
            => \/ starts' = starts + 1 /\ gameState'.blocks = << >>
               \/ /\ TotalScore(gameState') = TotalScore(gameState) + 1
                  /\ TotalScore(gameState') >= 2]_vars

\* The ball has just bounced off a block in the second match of a session,
\* and both blocks on screen are still there
C23_Witness ==
    /\ Played(sounds, "block")
    /\ Len(gameState.blocks) >= 2
    /\ starts = 2
    /\ gameState.countdown = 0

\* A spawning point: the frame from the current state to the next scores a
\* point that leaves the cumulative score at POINTS_TO_START_BLOCKS or more
SpawningPoint ==
    /\ TotalScore(gameState') = TotalScore(gameState) + 1
    /\ TotalScore(gameState') >= POINTS_TO_START_BLOCKS

\* Whether the frame can have added exactly added blocks to the list old and
\* left the list new: the old blocks keep their order in front of the added
\* ones, less the oldest that exceed MAX_BLOCKS_ON_SCREEN
AddedBlocks(old, new, added) ==
    LET evicted == Max(0, Len(old) + added - MAX_BLOCKS_ON_SCREEN)
        kept == Len(old) - evicted
    IN  /\ kept >= 0
        /\ Len(new) = kept + added
        /\ \A i \in 1..kept : new[i] = old[i + evicted]

\* C24 as stated: at a spawning point where fewer than 2 blocks exist exactly
\* one new block is added; where at least 2 exist, between 1 and 4 blocks are
\* attempted and no more are added than attempted.
C24_BootstrapAddsExactlyOne ==
    [][SpawningPoint
         => IF Len(gameState.blocks) < 2
            THEN AddedBlocks(gameState.blocks, gameState'.blocks, 1)
            ELSE \E added \in 0..4 : AddedBlocks(gameState.blocks, gameState'.blocks, added)]_vars

\* C24 as amended: at a spawning point where fewer than 2 blocks exist one
\* block is attempted and at most one is added (none when every placement
\* attempt is rejected, always one when no block exists); where at least 2
\* exist, between 1 and 4 blocks are attempted and no more are added than
\* attempted.
C24_BootstrapAddsAtMostOne ==
    [][SpawningPoint
         => IF gameState.blocks = << >>
            THEN AddedBlocks(gameState.blocks, gameState'.blocks, 1)
            ELSE IF Len(gameState.blocks) < 2
            THEN \E added \in 0..1 : AddedBlocks(gameState.blocks, gameState'.blocks, added)
            ELSE \E added \in 0..4 : AddedBlocks(gameState.blocks, gameState'.blocks, added)]_vars

\* A point has just been scored with one block on screen, and every placement
\* attempt of the new block was rejected: there is still one block
C24_Witness ==
    /\ TotalScore(gameState) = POINTS_TO_START_BLOCKS + 1
    /\ gameState.countdown = COUNTDOWN_START
    /\ gameState.lastScorerId # Null
    /\ Len(gameState.blocks) = 1

---------------------------------------------------------------------------
(* Board rotation *)

\* Both scores of s are at least BASE_WINNING_SCORE - 1
InDeuce(s) ==
    /\ s.score.player1 >= BASE_WINNING_SCORE - 1
    /\ s.score.player2 >= BASE_WINNING_SCORE - 1

\* The frame from the current state to the next has a paddle hit, a block hit
PaddleHitFrame == Played(sounds', "paddle")
BlockHitFrame == Played(sounds', "block")

\* C25: when both scores are at least BASE_WINNING_SCORE - 1 (4-4, say) a
\* paddle hit perturbs the recorded board rotation even in Classic mode, and
\* in Hardcore mode every paddle hit perturbs it at any score.
C25_PaddleRotatesInDeuceOrHardcore ==
    [][(/\ PaddleHitFrame
        /\ ~BlockHitFrame
        /\ InDeuce(gameState) \/ gameState.mode = "hardcore")
          => \E d \in RotationDeltas :
                /\ d # 0
                /\ gameState'.boardRotation = gameState.boardRotation + d]_vars

\* A paddle has just hit the ball at deuce in a Classic match and the board
\* is rotated
C25_Witness ==
    /\ Played(sounds, "paddle")
    /\ gameState.mode = "classic"
    /\ InDeuce(gameState)
    /\ gameState.boardRotation # 0
    /\ gameState.rallyPaddleHits >= 1

\* The match is in deuce or in Hardcore mode
RotationEnabled(s) == InDeuce(s) \/ s.mode = "hardcore"

\* C26 as stated: a paddle hit or a block hit perturbs the recorded board
\* rotation only when the match is in deuce or the mode is Hardcore; in
\* Classic mode outside deuce the rotation stays at its reset value 0 for the
\* whole rally.
C26_RotationOnlyInDeuceOrHardcore ==
    /\ [](~RotationEnabled(gameState) => gameState.boardRotation = 0)
    /\ [][(PaddleHitFrame \/ BlockHitFrame) /\ ~RotationEnabled(gameState)
            => gameState'.boardRotation = gameState.boardRotation]_vars

\* C26 as amended: a paddle hit perturbs the recorded board rotation only
\* when the match is in deuce or the mode is Hardcore, and a block hit
\* perturbs it in every mode and at every score; in Classic mode outside
\* deuce the rotation stays at its reset value 0 for as long as the ball has
\* touched no block in the rally.
C26_BlocksAlwaysRotate ==
    /\ [](~RotationEnabled(gameState) /\ ~touched.rally => gameState.boardRotation = 0)
    /\ [][PaddleHitFrame /\ ~BlockHitFrame /\ ~RotationEnabled(gameState)
            => gameState'.boardRotation = gameState.boardRotation]_vars
    /\ [][BlockHitFrame /\ ~PaddleHitFrame
            /\ TotalScore(gameState') = TotalScore(gameState)
            => \E d \in BlockRotationDeltas :
                  /\ d # 0
                  /\ gameState'.boardRotation = gameState.boardRotation + d]_vars

\* The ball has just bounced off a block in a Classic match outside deuce,
\* after a paddle hit, and the board is rotated
C26_Witness ==
    /\ Played(sounds, "block")
    /\ gameState.mode = "classic"
    /\ ~InDeuce(gameState)
    /\ gameState.rallyPaddleHits >= 1
    /\ gameState.boardRotation # 0

---------------------------------------------------------------------------
(* The snapshot an updater is given *)

\* The object prev as a reader finds it once the countdown updater has run:
\* the updater assigns prev.lastScorerId = null when it launches the ball
PrevAfterCountdown(prev) ==
    IF prev.isPaused THEN prev
    ELSE IF prev.countdown - 1 = 0 THEN [prev EXCEPT !.lastScorerId = Null]
    ELSE prev

\* The object prev once the gameLoop updater has run: the updater works on
\* JSON.parse(JSON.stringify(prev)) and on locals, and assigns nothing in prev
PrevAfterLoop(prev) == prev

\* C27: no game-loop tick and no countdown-timer step modifies the snapshot
\* it was given: whenever a frame or a countdown timer is due, the step leaves
\* every field of the state object it receives as it was.
C27_SnapshotUntouched ==
    /\ LoopRunning(committed) /\ ~RenderPending => PrevAfterLoop(gameState) = gameState
    /\ timer /\ ~RenderPending => PrevAfterCountdown(gameState) = gameState

\* Whether the vertical position y is closer than BLOCK_HEIGHT + 5 to a block
TooClose(blocks, y) ==
    \E i \in DOMAIN blocks : Abs(blocks[i].y - y) < Px(BLOCK_HEIGHT) + Px(5)

\* C28: any two blocks on screen have vertical positions at least
\* BLOCK_HEIGHT + 5 (45 px) apart, every block has the horizontal position
\* GAME_WIDTH / 2 - BLOCK_WIDTH / 2, and a block whose 10 placement attempts
\* are all rejected is not added: the placement of one block on the list of
\* a point just scored leaves it as it is or adds one block clear of the
\* others, and can leave it as it is whenever a rejected position can be drawn.
C28_BlocksApart ==
    LET blocks == gameState.blocks
        placed == PlaceBlock(blocks, 0, BlockSlots \cup BlockYChoices)
    IN  /\ \A i, j \in DOMAIN blocks :
              i # j => Abs(blocks[i].y - blocks[j].y) >= Px(45)
        /\ \A i \in DOMAIN blocks :
              blocks[i].x = Px(GAME_WIDTH) \div 2 - Px(BLOCK_WIDTH) \div 2
        /\ gameState.countdown = COUNTDOWN_START /\ gameState.lastScorerId # Null
              => /\ \A p \in placed :
                       \/ p = blocks
                       \/ /\ Len(p) = Len(blocks) + 1
                          /\ SubSeq(p, 1, Len(blocks)) = blocks
                          /\ ~TooClose(blocks, p[Len(p)].y)
                 /\ (\E y \in BlockSlots \cup BlockYChoices : TooClose(blocks, y))
                       => blocks \in placed

\* Five blocks are on screen
C28_Witness ==
    /\ Len(gameState.blocks) = MAX_BLOCKS_ON_SCREEN
    /\ gameState.isGameActive
    /\ gameState.countdown = COUNTDOWN_START

\* The most recently created blocks of a list in creation order, as many as
\* the screen holds
Newest(blocks) ==
    IF Len(blocks) <= MAX_BLOCKS_ON_SCREEN THEN blocks
    ELSE SubSeq(blocks, Len(blocks) - MAX_BLOCKS_ON_SCREEN + 1, Len(blocks))

\* The lists a spawning point can create from the blocks on screen, before
\* eviction
Spawned(blocks) == UNION { SpawnBlocks(blocks, n, BlockSlots) : n \in 1..4 }

\* C29: eviction is strictly first in, first out. Whatever list the spawning
\* loop can build from a full list that a scored point left, the shift loop
\* keeps its newest MAX_BLOCKS_ON_SCREEN blocks in creation order; and at every spawning
\* point the surviving old blocks are the youngest of the old list, in their
\* old order, in front of the blocks just created, so that no block is evicted
\* while an older one remains.
C29_EvictionIsFifo ==
    /\ []((/\ gameState.countdown = COUNTDOWN_START
           /\ gameState.lastScorerId # Null
           /\ RenderPending
           /\ keysPressed = NoKeys
           /\ Len(gameState.blocks) = MAX_BLOCKS_ON_SCREEN)
            => \A spawned \in Spawned(gameState.blocks) : Evict(spawned) = Newest(spawned))
    /\ [][SpawningPoint
            => \E added \in 0..4 :
                  AddedBlocks(gameState.blocks, gameState'.blocks, added)]_vars

\* A point was just scored with the list full, and the next spawning loop can
\* build a list from it that the shift loop has to cut
C29_Witness ==
    /\ gameState.countdown = COUNTDOWN_START
    /\ gameState.lastScorerId # Null
    /\ RenderPending
    /\ keysPressed = NoKeys
    /\ Len(gameState.blocks) = MAX_BLOCKS_ON_SCREEN
    /\ \E spawned \in Spawned(gameState.blocks) :
          /\ Len(spawned) > MAX_BLOCKS_ON_SCREEN
          /\ Evict(spawned) = Tail(spawned)
          /\ Evict(spawned) # SubSeq(spawned, 1, MAX_BLOCKS_ON_SCREEN)

\* C30: the wall-hit counter of the point is 0 as long as no paddle has touched
\* the ball (lastHitter is null). A frame in which a paddle hits the ball or a
\* point is scored leaves it at 0; any other frame in which the ball touches
\* the top or bottom wall after a paddle touched it raises it by exactly 1;
\* and no other step changes it.
C30_WallHitsCounted ==
    /\ [](gameState.lastHitter = Null => gameState.currentPointWallHits = 0)
    /\ [][IF Played(sounds', "paddle") \/ TotalScore(gameState') # TotalScore(gameState)
          THEN gameState'.currentPointWallHits = 0
          ELSE IF Played(sounds', "wall") /\ gameState.lastHitter # Null
          THEN gameState'.currentPointWallHits = gameState.currentPointWallHits + 1
          ELSE gameState'.currentPointWallHits = gameState.currentPointWallHits]_vars

\* The ball has touched the walls twice since the last paddle hit
C30_Witness ==
    /\ gameState.lastHitter # Null
    /\ gameState.currentPointWallHits = 2
    /\ Played(sounds, "wall")
    /\ ~Played(sounds, "paddle")

\* The player whose paddle the ball is moving toward
FacedPlayer(s) == IF s.ball.vx < 0 THEN "player1" ELSE "player2"

\* How many times a frame played sound
TimesPlayed(snd, sound) == Cardinality({ i \in DOMAIN snd : snd[i] = sound })

\* C31: a frame registers at most one paddle hit, and only by the paddle the
\* ball was moving toward; the hit sets lastHitter to that paddle's player,
\* the wall-hit counter to 0 and the block-hit flag to false, raises
\* rallyPaddleHits by exactly 1 and leaves the ball in that paddle's half with
\* its horizontal velocity pointing away from the paddle.
C31_PaddleHitRegistered ==
    [][/\ TimesPlayed(sounds', "paddle") <= 1
       /\ PaddleHitFrame =>
            /\ gameState.ball.vx # 0
            /\ gameState'.lastHitter = FacedPlayer(gameState)
            /\ gameState'.currentPointWallHits = 0
            /\ ~gameState'.hitBlockInFlight
            /\ gameState'.rallyPaddleHits = gameState.rallyPaddleHits + 1
            /\ IF FacedPlayer(gameState) = "player1"
               THEN gameState'.ball.vx > 0 /\ gameState'.ball.x < Px(GAME_WIDTH) \div 2
               ELSE gameState'.ball.vx < 0 /\ gameState'.ball.x > Px(GAME_WIDTH) \div 2]_vars

\* A paddle has just returned a ball that had touched a block earlier in the
\* rally
C31_Witness ==
    /\ Played(sounds, "paddle")
    /\ touched.rally
    /\ ~touched.flight
    /\ gameState.rallyPaddleHits >= 2
    /\ ~gameState.hitBlockInFlight

\* The bounce angle of the paddle hit that a frame has just registered: the
\* hit leaves the paddle and the ball's height as the angle was computed from
HitAngle(s) ==
    BounceAngle(IF s.lastHitter = "player1" THEN s.paddles.left ELSE s.paddles.right,
                s.ball.y)

\* C32: consecutiveStraightHits is between 0 and 3 in every state. A paddle
\* hit with |angle| < 0.1 raises it by 1, a larger angle resets it to 0, and
\* the hit that would make it 4 is deflected by 0.35 rad to one side instead
\* and resets it to 0, so the fourth straight hit in a row never leaves the
\* ball on a straight course.
C32_StraightHitsBounded ==
    /\ [](gameState.consecutiveStraightHits \in 0..(STRAIGHT_HITS_LIMIT - 1))
    /\ [][PaddleHitFrame =>
            LET straight == Abs(HitAngle(gameState')) < STRAIGHT_ANGLE
                fourth == gameState.consecutiveStraightHits + 1 >= STRAIGHT_HITS_LIMIT
                forcedVy == Quot(gameState'.ballSpeed * Sin(FORCED_ANGLE), AngleScale)
            IN  IF ~straight THEN gameState'.consecutiveStraightHits = 0
                ELSE IF fourth
                THEN /\ gameState'.consecutiveStraightHits = 0
                     /\ Abs(gameState'.ball.vy) = forcedVy
                     /\ forcedVy * AngleScale >= gameState'.ballSpeed * Sin(STRAIGHT_ANGLE)
                ELSE gameState'.consecutiveStraightHits
                        = gameState.consecutiveStraightHits + 1]_vars

\* The fourth straight hit in a row has just been deflected
C32_Witness ==
    /\ Played(sounds, "paddle")
    /\ Abs(HitAngle(gameState)) < STRAIGHT_ANGLE
    /\ gameState.consecutiveStraightHits = 0
    /\ gameState.rallyPaddleHits >= STRAIGHT_HITS_LIMIT
    /\ Abs(gameState.ball.vy) = Quot(gameState.ballSpeed * Sin(FORCED_ANGLE), AngleScale)
    /\ gameState.ball.vy # 0

\* Whether hits is 5, 7, 9, ...: RALLY_HITS_THRESHOLD or past it by a multiple
\* of RALLY_HITS_INTERVAL
SpeedUpHit(hits) ==
    \E n \in 0..hits : hits = RALLY_HITS_THRESHOLD + n * RALLY_HITS_INTERVAL

\* C33: a paddle hit raises ballSpeed by exactly BALL_SPEED_INCREMENT, capped at
\* MAX_BALL_SPEED, if and only if the new rallyPaddleHits is 5, 7, 9, ... and
\* the match score is below MAX_PROGRESSION_SCORE in total; every other paddle
\* hit and every step that neither hits a paddle, scores nor starts a match
\* leaves ballSpeed as it is.
C33_SpeedUpOnPaddleHit ==
    [][(starts' = starts /\ TotalScore(gameState') = TotalScore(gameState))
         => gameState'.ballSpeed =
              IF /\ PaddleHitFrame
                 /\ SpeedUpHit(gameState'.rallyPaddleHits)
                 /\ TotalScore(gameState) < MAX_PROGRESSION_SCORE
              THEN Min(gameState.ballSpeed + BALL_SPEED_INCREMENT, Px(MAX_BALL_SPEED))
              ELSE gameState.ballSpeed]_vars

\* The seventh paddle hit of a rally at 3-2 has left the speed of the serve,
\* which is the speed of that score
C33_Witness ==
    /\ Played(sounds, "paddle")
    /\ gameState.rallyPaddleHits = RALLY_HITS_THRESHOLD + RALLY_HITS_INTERVAL
    /\ TotalScore(gameState) = MAX_PROGRESSION_SCORE
    /\ gameState.ballSpeed = getSpeedForScore(MAX_PROGRESSION_SCORE, gameState.mode)

\* The one-shot events of a rally, the condition each is played on and the
\* flag that records it
OneShotEvents == {"lightspeed", "eleganto", "yameroo"}

OneShotReached(e, s) ==
    IF e = "lightspeed" THEN s.ballSpeed >= HIGH_SPEED_THRESHOLD
    ELSE IF e = "eleganto" THEN s.rallyPaddleHits = RALLY_ELEGANTO_THRESHOLD
    ELSE s.rallyPaddleHits = RALLY_YAMEROO_THRESHOLD

OneShotPlayed(e, s) ==
    IF e = "lightspeed" THEN s.hasSpeedThresholdMet
    ELSE IF e = "eleganto" THEN s.hasElegantoPlayed
    ELSE s.hasYamerooPlayed

\* The step is a frame of the running game
FrameStep ==
    /\ ~LoopReturnsPrev(gameState)
    /\ gameState' # gameState
    /\ starts' = starts
    /\ gameState'.isPaused = gameState.isPaused

\* C34: within one rally each one-shot event is played at most once, and only
\* on its condition (eleganto at rallyPaddleHits = RALLY_ELEGANTO_THRESHOLD,
\* yameroo at RALLY_YAMEROO_THRESHOLD, the high-speed event at ballSpeed >=
\* HIGH_SPEED_THRESHOLD): a frame plays it once, with the condition true and
\* the event not yet played in the rally, and records it; once recorded it is
\* not played again and stays recorded until a point is scored; and the first
\* frame that finds the condition true plays it, so that every rally that
\* reaches a condition has played the event when its point is scored.
C34_OneShotEvents ==
    [][\A e \in OneShotEvents :
         /\ Played(sounds', e)
              => /\ TimesPlayed(sounds', e) = 1
                 /\ OneShotReached(e, gameState)
                 /\ ~OneShotPlayed(e, gameState)
                 /\ OneShotPlayed(e, gameState')
                      \/ TotalScore(gameState') # TotalScore(gameState)
         /\ OneShotPlayed(e, gameState)
              => /\ ~Played(sounds', e)
                 /\ (starts' = starts /\ TotalScore(gameState') = TotalScore(gameState))
                      => OneShotPlayed(e, gameState')
         /\ (FrameStep /\ OneShotReached(e, gameState))
              => Played(sounds', e) \/ OneShotPlayed(e, gameState)
         /\ TotalScore(gameState') # TotalScore(gameState)
              => ~OneShotPlayed(e, gameState')]_vars

\* The frame after the twentieth paddle hit of a rally has played yameroo, the
\* other two events played earlier in the rally
C34_Witness ==
    /\ Played(sounds, "yameroo")
    /\ gameState.hasElegantoPlayed
    /\ gameState.hasSpeedThresholdMet
    /\ gameState.hasYamerooPlayed
    /\ gameState.rallyPaddleHits = RALLY_YAMEROO_THRESHOLD

\* The step is an expiry of the countdown timer: the timer is consumed and no
\* render has run
TimerStep == timer /\ ~timer' /\ committed' = committed

\* C35: the countdown is always 0, 1, 2 or 3. It changes only by becoming 3
\* at a start or a scored point and by one timer step lowering it by exactly
\* 1; a timer expires only while the countdown is positive and, unless the
\* state is paused, lowers it; so no interleaving of timer expiries, pause
\* keys, frames and starts makes it negative.
C35_CountdownRange ==
    /\ [](gameState.countdown \in 0..COUNTDOWN_START)
    /\ [][gameState'.countdown # gameState.countdown
            => \/ /\ gameState'.countdown = COUNTDOWN_START
                  /\ \/ starts' = starts + 1
                     \/ TotalScore(gameState') = TotalScore(gameState) + 1
               \/ /\ gameState'.countdown = gameState.countdown - 1
                  /\ TimerStep]_vars
    /\ [][TimerStep
            => /\ gameState.countdown >= 1
               /\ gameState'.countdown
                    = IF gameState.isPaused THEN gameState.countdown
                      ELSE gameState.countdown - 1]_vars

\* The countdown of a serve has reached 0 after a pause and a resume
C35_Witness ==
    /\ gameState.countdown = 0
    /\ gameState.ball.vx # 0
    /\ TotalScore(gameState) >= 1
    /\ pauseKeys >= 2
    /\ ~gameState.isPaused

\* How many of the five result flags the state s holds
ResultFlags(s) ==
    Cardinality({ i \in {2, 3, 4, 5, 6} : HasCategory(s, i) })

\* C36: a completed match holds exactly one of the flags Shutout (isMasacre),
\* NearMiss, SonicBoom, Explosion and Comeback (isRemontada), the one of the
\* loser's final score 0, 1, 2, 3 or at least 4, and holds Overtime
\* (isDramaticFinish) only together with Comeback; so the tick that ends a
\* match never emits the plain win or the overtime category.
C36_OneResultFlag ==
    /\ [](gameState.winner # Null
            => /\ ResultFlags(gameState) = 1
               /\ gameState.isMasacre <=> LoserScore(gameState) = 0
               /\ gameState.isNearMiss <=> LoserScore(gameState) = 1
               /\ gameState.isSonicBoom <=> LoserScore(gameState) = 2
               /\ gameState.isExplosion <=> LoserScore(gameState) = 3
               /\ gameState.isRemontada <=> LoserScore(gameState) >= 4
               /\ gameState.isDramaticFinish => gameState.isRemontada)
    /\ [][~Played(sounds', "win") /\ ~Played(sounds', "dramatic")]_vars

\* A match has ended 6-4 after overtime: Comeback and Overtime are both set
C36_Witness ==
    /\ gameState.winner # Null
    /\ LoserScore(gameState) = 4
    /\ gameState.isDramaticFinish
    /\ gameState.isRemontada
    /\ Played(sounds, "remontada")

\* C37: after every frame the ball lies vertically inside the arena,
\* BALL_SIZE / 2 <= ball.y <= GAME_HEIGHT - BALL_SIZE / 2, also when a block
\* collision is resolved on the vertical axis.
C37_BallInsideArena ==
    /\ gameState.ball.y >= HalfBall
    /\ gameState.ball.y <= Px(GAME_HEIGHT) - HalfBall

---------------------------------------------------------------------------
(* The countdown's progress.  A timer that is set expires (setTimeout), and *)
(* React commits the render of a pending update: both steps are taken once   *)
(* they stay possible.                                                       *)

SpecCountdown ==
    /\ Init
    /\ [][NextPause]_vars
    /\ WF_vars(TimerFire)
    /\ WF_vars(Commit)

\* A countdown is pending in state s of an active, unresolved, unpaused session
CountdownPending(s) ==
    s.isGameActive /\ s.winner = Null /\ ~s.isPaused /\ s.countdown > 0

\* The ball of s has been launched by the countdown
Launched(s) ==
    /\ s.countdown = 0
    /\ s.ball.vx = s.nextBallDirection * s.ballSpeed
    /\ s.ball.vy = 0

\* C38: while the session is active, unresolved and unpaused, a pending
\* countdown never stalls (its timer is set, or the render that sets it is
\* pending), every timer expiry takes one off it, so that at most three lead
\* to 0, the expiry that reaches 0 launches the ball, and under fairness of the
\* timer a pending countdown leads to the launch unless the session is paused.
C38_CountdownReachesZero ==
    /\ [](CountdownPending(gameState) => timer \/ RenderPending)
    /\ [][TimerStep
            => /\ CountdownPending(gameState)
               /\ gameState.countdown <= COUNTDOWN_START
               /\ gameState'.countdown = gameState.countdown - 1
               /\ gameState'.countdown = 0 => Launched(gameState')]_vars
    /\ (CountdownPending(gameState) ~> (Launched(gameState) \/ gameState.isPaused))

\* The countdown of a rally after a point has reached 0 and the ball was
\* launched toward a player, in a session that was paused and resumed before
C38_Witness ==
    /\ Launched(gameState)
    /\ gameState.isGameActive
    /\ ~gameState.isPaused
    /\ gameState.score.player1 + gameState.score.player2 > 0
    /\ pauseKeys = MaxPauseKeys
    /\ ~RenderPending

---------------------------------------------------------------------------
(* The leaderboard entry of a finished match (src/App.tsx) *)

\* calculateScore: the points of the entry, from the state the overlay shows
calculateScore(s) ==
    LET winnerScore == IF s.winner = s.playerNames.player1
                       THEN s.score.player1 ELSE s.score.player2
        loserScore == IF s.winner = s.playerNames.player1
                      THEN s.score.player2 ELSE s.score.player1
        diff == winnerScore - loserScore
        points == IF s.mode = "hardcore" THEN diff * 100 * 2 ELSE diff * 100
    IN  IF s.isMasacre THEN points + 1000 ELSE points

\* C39: the points computed for a completed match are positive, the margin of
\* the side that won times 100, doubled in Hardcore, plus 1000 for a shutout,
\* whatever the two names are
C39_PointsPositive ==
    gameState.winner # Null
        => /\ calculateScore(gameState) > 0
           /\ calculateScore(gameState)
                = (WinnerScore(gameState) - LoserScore(gameState)) * 100
                    * (IF gameState.mode = "hardcore" THEN 2 ELSE 1)
                    + (IF LoserScore(gameState) = 0 THEN 1000 ELSE 0)

\* handleSubmitScore's newEntry for the result that state s shows, the name
\* being winner.toUpperCase().substring(0, 10) on the names of the model;
\* match is history: the number of the match the entry was made for
NewEntry(s, m) ==
    LET name == CASE s.winner = "Player 1" -> "PLAYER 1"
                  [] s.winner = "Player 2" -> "PLAYER 2"
                  [] OTHER -> s.winner
    IN  [ name |-> name, score |-> calculateScore(s), mode |-> s.mode,
          isMasacre |-> s.isMasacre, match |-> m ]

\* LeaderboardService.save, step 2: [...currentList, newEntry] sorted by
\* descending score (a stable sort of a sorted list), the first ten kept
UpdatedList(currentList, newEntry) ==
    LET k == Cardinality({i \in DOMAIN currentList : currentList[i].score >= newEntry.score})
        sorted == SubSeq(currentList, 1, k) \o <<newEntry>>
                    \o SubSeq(currentList, k + 1, Len(currentList))
    IN  SubSeq(sorted, 1, Min(Len(sorted), LEADERBOARD_SIZE))

\* handleSubmitScore up to its await, called n times by click events that
\* are handled before React renders their updates (all n calls are calls of
\* the handler the last render made, which reads that render's isSubmitting
\* and gameState), and the render that follows.  Each call that passes the
\* guard sets isSubmitting and starts a save.  The button can be clicked when
\* the overlay of the last render shows a result and scoreSubmitted and
\* isSubmitting were false in that render.
SubmitScore(n) ==
    /\ ~RenderPending
    /\ committed.winner # Null
    /\ ~app.scoreSubmitted
    /\ ~app.isSubmitting
    /\ LET isSubmitting == app.isSubmitting
           passes == ~(isSubmitting \/ gameState.winner = Null)
           started == [i \in 1..n |-> [newEntry |-> NewEntry(gameState, starts),
                                       read |-> FALSE, currentList |-> << >>]]
       IN  app' = IF passes
                  THEN [app EXCEPT !.isSubmitting = TRUE, !.saves = @ \o started]
                  ELSE app
    /\ sounds' = << >>
    /\ UNCHANGED <<gameState, keysPressed, matchHistory, committed, timer, keyEvents,
                   pauseKeys, starts, touched, wonBy>>

\* LeaderboardService.save, step 1, for the save in flight number i:
\* currentList = await this.get()
SaveGet(i) ==
    /\ i \in DOMAIN app.saves
    /\ ~app.saves[i].read
    /\ app' = [app EXCEPT !.saves[i].read = TRUE, !.saves[i].currentList = app.stored]
    /\ sounds' = << >>
    /\ UNCHANGED <<gameState, keysPressed, matchHistory, committed, timer, keyEvents,
                   pauseKeys, starts, touched, wonBy>>

\* Steps 2 and 3 of that save and the rest of handleSubmitScore: the updated
\* list is stored, scoreSubmitted is set and isSubmitting cleared
SavePut(i) ==
    /\ i \in DOMAIN app.saves
    /\ app.saves[i].read
    /\ app' = [app EXCEPT
                  !.stored = UpdatedList(app.saves[i].currentList, app.saves[i].newEntry),
                  !.saves = SubSeq(@, 1, i - 1) \o SubSeq(@, i + 1, Len(@)),
                  !.scoreSubmitted = TRUE,
                  !.isSubmitting = FALSE]
    /\ sounds' = << >>
    /\ UNCHANGED <<gameState, keysPressed, matchHistory, committed, timer, keyEvents,
                   pauseKeys, starts, touched, wonBy>>

\* The last rally of a match between two players of different or equal names,
\* at 4-0 or 2-4, the match point played by hitter
InitBoard ==
    /\ \E mode \in Modes, hitter \in Players, names \in NamePairs,
          score \in {[player1 |-> 4, player2 |-> 0], [player1 |-> 2, player2 |-> 4]} :
          gameState = [RallyState(mode, score, hitter, 0, FALSE) EXCEPT
                          !.playerNames = [player1 |-> names[1], player2 |-> names[2]]]
    /\ touched = NoTouch
    /\ wonBy = << >>
    /\ app = AppInit
    /\ keysPressed = NoKeys
    /\ matchHistory = << >>
    /\ committed = Deps(gameState)
    /\ timer = FALSE
    /\ sounds = << >>
    /\ keyEvents = 0
    /\ pauseKeys = 0
    /\ starts = 1

\* The end of the match, the submissions of its result and the start of a
\* rematch, no key pressed
NextBoard ==
    \/ Run([Pointing EXCEPT !.maxHits = MaxPaddleHits + 1])
    \/ \E n \in 1..MaxSubmitsPerRender : SubmitScore(n)
    \/ \E i \in 1..MaxSubmitsPerRender * MaxStarts : SaveGet(i)
    \/ \E i \in 1..MaxSubmitsPerRender * MaxStarts : SavePut(i)

SpecBoard == InitBoard /\ [][NextBoard]_vars

\* C40: the result of one match is saved at most once, also when two submit
\* actions are handled before the re-render, and once it is saved no further
\* submission begins until a new match starts.
C40_SavedAtMostOnce ==
    /\ [](\A m \in 1..MaxStarts :
             Cardinality({i \in DOMAIN app.stored : app.stored[i].match = m}) <= 1)
    /\ [][((\E i \in DOMAIN app.stored : app.stored[i].match = starts) /\ starts' = starts)
            => Len(app'.saves) <= Len(app.saves)]_vars

=============================================================================
